---------------------------- MODULE Spec2Model ----------------------------
(***************************************************************************)
(* Rule-based file selection and tree copy of guild/file_util.py:          *)
(* FileSelectRule.test, FileSelect.select_file / prune_dirs / disabled,    *)
(* copytree with its handler, and FileCopyHandler's copy error policy.     *)
(*                                                                         *)
(* Paths and patterns are sequences of one-character strings, so that      *)
(* basename, join, fnmatch and sorted() are computed, not assumed.         *)
(* An optional value (None or v) is a sequence: <<>> is None, <<v>> is v.  *)
(***************************************************************************)
EXTENDS Integers, Sequences, FiniteSets, TLC

(***************************************************************************)
(* Bounds of the model.                                                    *)
(***************************************************************************)
\* longest rule list drawn by Init
MaxRules == 2
\* API calls (test, select_file, prune_dirs, copytree) made on one FileSelect
MaxCalls == 2
\* I/O faults and handler exceptions injected in one behaviour
MaxFaults == 1

(***************************************************************************)
(* Characters and strings.                                                 *)
(***************************************************************************)
\* os.path.sep on the POSIX build
Sep == "/"

\* ord() of the characters that occur in the model's names and patterns
Ord(c) ==
    CASE c = "*" -> 42
      [] c = "." -> 46
      [] c = "/" -> 47
      [] c = "?" -> 63
      [] c = "a" -> 97
      [] c = "b" -> 98
      [] c = "c" -> 99
      [] c = "d" -> 100
      [] c = "e" -> 101
      [] c = "i" -> 105
      [] c = "l" -> 108
      [] c = "n" -> 110
      [] c = "o" -> 111
      [] c = "r" -> 114
      [] c = "s" -> 115
      [] c = "t" -> 116
      [] c = "u" -> 117
      [] c = "x" -> 120

\* Python's str < str: lexicographic by code point, a proper prefix is smaller
RECURSIVE StrLess(_, _)
StrLess(a, b) ==
    IF b = <<>> THEN FALSE
    ELSE IF a = <<>> THEN TRUE
    ELSE IF Head(a) = Head(b) THEN StrLess(Tail(a), Tail(b))
    ELSE Ord(Head(a)) < Ord(Head(b))

\* sorted(names) for a set of distinct strings: the least name first
RECURSIVE sorted(_)
sorted_from(least, S) == <<least>> \o sorted(S \ {least})
sorted(S) ==
    IF S = {} THEN <<>>
    ELSE sorted_from(CHOOSE x \in S : \A y \in S \ {x} : StrLess(x, y), S)

\* the elements of a sequence
Range(s) == {s[i] : i \in DOMAIN s}

\* os.path.join(a, b) for a relative b: b alone when a is empty
join(a, b) == IF a = <<>> THEN b ELSE a \o <<Sep>> \o b

\* os.path.basename(path): what follows the last separator
RECURSIVE basename(_)
basename(path) ==
    IF \E i \in DOMAIN path : path[i] = Sep
    THEN basename(Tail(path))
    ELSE path

\* _native_paths: every "/" of a glob pattern becomes os.path.sep
_native_path(p) == [i \in DOMAIN p |-> IF p[i] = "/" THEN Sep ELSE p[i]]

\* _strip_leading_path_sep
RECURSIVE _strip_leading_path_sep(_)
_strip_leading_path_sep(pattern) ==
    IF pattern = <<>> THEN pattern
    ELSE IF Head(pattern) # Sep THEN pattern
    ELSE _strip_leading_path_sep(Tail(pattern))

\* fnmatch.fnmatch(name, pat) on POSIX for patterns of literals, "*" and "?":
\* "*" matches any run of characters (separators included), the match is of
\* the whole name
RECURSIVE fnmatch(_, _)
fnmatch(name, pat) ==
    IF pat = <<>> THEN name = <<>>
    ELSE IF Head(pat) = "*"
         THEN fnmatch(name, Tail(pat))
              \/ (name # <<>> /\ fnmatch(Tail(name), pat))
    ELSE IF Head(pat) = "?"
         THEN name # <<>> /\ fnmatch(Tail(name), Tail(pat))
    ELSE name # <<>> /\ Head(name) = Head(pat)
         /\ fnmatch(Tail(name), Tail(pat))

\* _fnmatch(path, pattern): a pattern without separator sees the base name
_fnmatch(path, pattern) ==
    fnmatch(IF \E i \in DOMAIN pattern : pattern[i] = Sep
            THEN path ELSE basename(path),
            _strip_leading_path_sep(pattern))

(***************************************************************************)
(* The source tree the walks run on.                                       *)
(***************************************************************************)
n_notes_txt == <<"n","o","t","e","s",".","t","x","t">>
n_secret_txt == <<"s","e","c","r","e","t",".","t","x","t">>
n_a_txt == <<"a",".","t","x","t">>
n_b_bin == <<"b",".","b","i","n">>
n_build == <<"b","u","i","l","d">>
n_data == <<"d","a","t","a">>
n_sub == <<"s","u","b">>

p_star == <<"*">>
p_star_txt == <<"*",".","t","x","t">>

\* Entries of the tree under the source root: dir is the parent's relative
\* path, text the content classifier's answer, size what stat reports (None
\* when the size cannot be read).
Tree ==
    { [dir |-> <<>>, name |-> n_notes_txt, kind |-> "file", text |-> TRUE,
       size |-> <<10>>],
      [dir |-> <<>>, name |-> n_secret_txt, kind |-> "file", text |-> TRUE,
       size |-> <<200>>],
      [dir |-> <<>>, name |-> n_build, kind |-> "dir", text |-> FALSE,
       size |-> <<4096>>],
      [dir |-> <<>>, name |-> n_data, kind |-> "dir", text |-> FALSE,
       size |-> <<4096>>],
      [dir |-> n_build, name |-> n_b_bin, kind |-> "file", text |-> FALSE,
       size |-> <<5>>],
      [dir |-> n_build, name |-> n_sub, kind |-> "dir", text |-> FALSE,
       size |-> <<4096>>],
      [dir |-> join(n_build, n_sub), name |-> n_a_txt, kind |-> "file",
       text |-> TRUE, size |-> <<>>],
      [dir |-> n_data, name |-> n_b_bin, kind |-> "file", text |-> FALSE,
       size |-> <<5>>] }

EntryPath(e) == join(e.dir, e.name)
FilePaths == {EntryPath(e) : e \in {x \in Tree : x.kind = "file"}}
DirPaths == {EntryPath(e) : e \in {x \in Tree : x.kind = "dir"}}

\* the current directory, in which the tree lies
curdir == <<".">>

\* path.split(os.path.sep)
RECURSIVE split(_, _)
split(path, cur) ==
    IF path = <<>> THEN <<cur>>
    ELSE IF Head(path) = Sep THEN <<cur>> \o split(Tail(path), <<>>)
    ELSE split(Tail(path), Append(cur, Head(path)))

RECURSIVE joinall(_)
joinall(segs) ==
    IF segs = <<>> THEN <<>>
    ELSE IF Len(segs) = 1 THEN segs[1]
    ELSE segs[1] \o <<Sep>> \o joinall(Tail(segs))

\* the segments of a relative path that name something: empty and "."
\* segments dropped (the model's paths hold no "..")
RECURSIVE segments_of(_)
segments_of(segs) ==
    IF segs = <<>> THEN <<>>
    ELSE IF Head(segs) = <<>> \/ Head(segs) = curdir THEN segments_of(Tail(segs))
    ELSE <<Head(segs)>> \o segments_of(Tail(segs))

\* the segments of a relative path
segments(path) == segments_of(split(path, <<>>))

\* os.path.normpath of a relative path: "." when nothing is left
normpath_segs(segs) == IF segs = <<>> THEN curdir ELSE joinall(segs)
normpath(path) == normpath_segs(segments(path))

\* os.path.relpath(path, start) for a path at or below start, from their
\* segments
relpath_segs(a, b) ==
    IF Len(a) = Len(b) THEN curdir ELSE joinall(SubSeq(a, Len(b) + 1, Len(a)))
relpath_of(path, start) == relpath_segs(segments(path), segments(start))

\* _relpath(path, start)
_relpath(path, start) == IF path = start THEN <<>> ELSE relpath_of(path, start)

\* the tree's name of a path given from the current directory
Key(path) == joinall(segments(path))
TreePaths == {EntryPath(e) : e \in Tree}
\* what is at a path: its tree entry, the source directory itself, or nothing
NoEntry == [kind |-> "none", text |-> FALSE, size |-> <<>>]
TopEntry == [kind |-> "dir", text |-> FALSE, size |-> <<4096>>]
EntryAt(key) ==
    IF key = <<>> THEN TopEntry
    ELSE IF key \in TreePaths THEN CHOOSE e \in Tree : EntryPath(e) = key
    ELSE NoEntry
Entry(path) == EntryAt(Key(path))

\* os.path.isdir
isdir(path) == Entry(path).kind = "dir"
\* util.safe_is_text_file: false for what is not a readable text file
safe_is_text_file(path) == Entry(path).text
\* util.safe_filesize: the size in bytes, or None when it cannot be read
safe_filesize(path) == Entry(path).size
\* one level of os.walk: the directory and file names of a directory
ListDirs(root) ==
    {e.name : e \in {x \in Tree : x.dir = Key(root) /\ x.kind = "dir"}}
ListFiles(root) ==
    {e.name : e \in {x \in Tree : x.dir = Key(root) /\ x.kind = "file"}}
\* glob.glob(join(path, sentinel)) is non-empty: some entry of the directory
\* matches the (one-segment) sentinel; "*" and "?" do not match a leading dot
glob_nonempty(path, sentinel) ==
    \E e \in Tree :
        /\ e.dir = Key(path)
        /\ fnmatch(e.name, sentinel)
        /\ (Head(e.name) = "." => Head(sentinel) = ".")

(***************************************************************************)
(* FileSelectRule.                                                         *)
(***************************************************************************)
IsNone(x) == x = <<>>
\* Python truthiness of an optional number: None and 0 are false
Truthy(x) == x # <<>> /\ x[1] # 0

ValidTypes == {"text", "binary", "dir"}

\* a _validate_type that returns every value
_validate_type_any(type) == TRUE

\* _validate_type: None (the empty sequence) or one of the valid names
_validate_type(type) == type = <<>> \/ type[1] \in ValidTypes

\* FileSelectRule.__init__: glob patterns are made native, regex patterns are
\* kept; the rule's match counter is kept apart, in the variable matches
FileSelectRule(result, patterns, type, regex, sentinel, size_gt, size_lt, max_matches) ==
    [result |-> result,
     patterns |-> IF regex THEN patterns
                  ELSE [i \in DOMAIN patterns |-> _native_path(patterns[i])],
     type |-> type,
     regex |-> regex,
     sentinel |-> sentinel,
     size_gt |-> size_gt,
     size_lt |-> size_lt,
     max_matches |-> max_matches]

\* include(patterns, **kw) and exclude(patterns, **kw) with the keywords the
\* model's rules use
include(patterns, type, size_gt, size_lt, max_matches) ==
    FileSelectRule(TRUE, patterns, type, FALSE, <<>>, size_gt, size_lt, max_matches)
exclude(patterns, type, size_gt, size_lt, max_matches) ==
    FileSelectRule(FALSE, patterns, type, FALSE, <<>>, size_gt, size_lt, max_matches)

\* util.stdpath: the path with forward slashes
stdpath(path) == [i \in DOMAIN path |-> IF path[i] = Sep THEN "/" ELSE path[i]]

\* re.compile(p).match(s) for patterns of literals, "." and a starred atom:
\* the pattern has to match at the start of s, not all of it
RECURSIVE re_match(_, _)
re_match(s, pat) ==
    IF pat = <<>> THEN TRUE
    ELSE IF Len(pat) >= 2 /\ pat[2] = "*"
         THEN re_match(s, SubSeq(pat, 3, Len(pat)))
              \/ (s # <<>> /\ Head(pat) \in {".", Head(s)} /\ re_match(Tail(s), pat))
         ELSE s # <<>> /\ Head(pat) \in {".", Head(s)}
              /\ re_match(Tail(s), Tail(pat))

\* _regex_match_f
_regex_match_f(patterns, path) ==
    \E i \in DOMAIN patterns : re_match(stdpath(path), patterns[i])

\* _fnmatch_f
_fnmatch_f(patterns, path) ==
    \E i \in DOMAIN patterns : _fnmatch(path, patterns[i])

\* _patterns_match_f, applied
_patterns_match(rule, path) ==
    IF rule.regex THEN _regex_match_f(rule.patterns, path)
    ELSE _fnmatch_f(rule.patterns, path)

\* a rule that never looks at its counter
_test_max_matches_off(rule, m) == TRUE

\* a max matches check that still passes when the counter equals the maximum
_test_max_matches_inclusive(rule, m) ==
    IF IsNone(rule.max_matches) THEN TRUE ELSE m <= rule.max_matches[1]

_test_max_matches(rule, m) ==
    IF IsNone(rule.max_matches) THEN TRUE ELSE m < rule.max_matches[1]

_test_patterns(rule, path) == _patterns_match(rule, path)

_test_dir(rule, path) ==
    IF ~isdir(path) THEN FALSE
    ELSE IF rule.sentinel # <<>> THEN glob_nonempty(path, rule.sentinel)
    ELSE TRUE

_test_type(rule, path) ==
    IF IsNone(rule.type) THEN TRUE
    ELSE IF rule.type[1] = "text" THEN safe_is_text_file(path)
    ELSE IF rule.type[1] = "binary" THEN ~safe_is_text_file(path)
    ELSE _test_dir(rule, path)

\* a size check that lets no file of unknown size pass
_test_size_of_known_only(rule, size) ==
    IF IsNone(size) THEN FALSE
    ELSE IF Truthy(rule.size_gt) /\ size[1] > rule.size_gt[1] THEN TRUE
    ELSE IF Truthy(rule.size_lt) /\ size[1] < rule.size_lt[1] THEN TRUE
    ELSE FALSE

\* _test_size once the size has been read
_test_size_of(rule, size) ==
    IF IsNone(size) THEN TRUE
    ELSE IF Truthy(rule.size_gt) /\ size[1] > rule.size_gt[1] THEN TRUE
    ELSE IF Truthy(rule.size_lt) /\ size[1] < rule.size_lt[1] THEN TRUE
    ELSE FALSE

_test_size(rule, path) ==
    IF IsNone(rule.size_gt) /\ IsNone(rule.size_lt) THEN TRUE
    ELSE _test_size_of(rule, safe_filesize(path))

\* _copytree_src, for a root_start that passed the assertion
_copytree_src(root_start, root) ==
    IF root # <<>> THEN normpath(join(root_start, root[1])) ELSE root_start

\* the rules FileSelect objects are built from
RuleDomain ==
    { include(<<p_star_txt>>, <<>>, <<>>, <<>>, <<>>),
      exclude(<<n_secret_txt>>, <<>>, <<>>, <<>>, <<>>),
      exclude(<<p_star>>, <<>>, <<>>, <<>>, <<>>),
      include(<<p_star>>, <<>>, <<>>, <<>>, <<>>),
      exclude(<<n_build>>, <<"dir">>, <<>>, <<>>, <<>>),
      exclude(<<p_star>>, <<>>, <<100>>, <<>>, <<>>),
      include(<<p_star_txt>>, <<>>, <<>>, <<>>, <<1>>),
      exclude(<<p_star>>, <<"binary">>, <<>>, <<>>, <<>>) }


\* the rules whose checks are exercised by direct test calls: both size
\* bounds, one size bound, and regex patterns that match a prefix of
\* notes.txt, all of it, or none
p_notes == <<"n","o","t","e","s">>
p_n_any == <<"n",".","*">>
p_x == <<"x">>
TestRules ==
    { include(<<p_star>>, <<>>, <<7>>, <<100>>, <<>>),
      exclude(<<p_star_txt>>, <<>>, <<>>, <<100>>, <<>>),
      include(<<p_star>>, <<>>, <<0>>, <<>>, <<>>),
      exclude(<<p_star>>, <<>>, <<>>, <<0>>, <<>>),
      FileSelectRule(TRUE, <<p_notes>>, <<>>, TRUE, <<>>, <<>>, <<>>, <<>>),
      FileSelectRule(TRUE, <<p_x, p_n_any>>, <<>>, TRUE, <<>>, <<>>, <<>>, <<>>) }

\* the rules of the FileSelect objects that copytree is run on
WalkRules ==
    { include(<<p_star_txt>>, <<>>, <<>>, <<>>, <<>>),
      exclude(<<n_secret_txt>>, <<>>, <<>>, <<>>, <<>>),
      exclude(<<p_star>>, <<>>, <<>>, <<>>, <<>>),
      include(<<p_star>>, <<>>, <<>>, <<>>, <<>>),
      exclude(<<n_build>>, <<"dir">>, <<>>, <<>>, <<>>),
      exclude(<<p_star>>, <<>>, <<100>>, <<>>, <<>>) }

\* the values of FileSelect.root and the source roots copytree derives
Roots == {<<>>, <<n_build>>}
Srcs == {_copytree_src(curdir, r) : r \in Roots}

\* the relative paths of the files and directories below a source root
BelowSrc(paths, src_root) ==
    {_relpath(join(curdir, f), join(curdir, src_root)) :
        f \in {g \in paths : Key(src_root) = <<>>
                  \/ (Len(g) > Len(Key(src_root))
                      /\ SubSeq(g, 1, Len(Key(src_root)) + 1)
                             = Key(src_root) \o <<Sep>>)}}
RelFiles == [s \in Srcs |-> BelowSrc(FilePaths, s)]
RelDirs == [s \in Srcs |-> BelowSrc(DirPaths, s)]

\* fullpath = os.path.join(src_root, relpath) in FileSelectRule.test
fullpath(src_root, relpath) == join(src_root, relpath)

\* the checks with the pattern check ahead of the max matches check
tests_pattern_first == <<"pattern", "max matches", "type", "size">>

\* the names of the checks of FileSelectRule.test, in the order of its list
tests == <<"max matches", "pattern", "type", "size">>

\* FileSelectTest.__call__: the named check with the arguments test gave it
\* (the pattern check sees relpath, the type and size checks fullpath)
FileSelectTest(name, rule, m, src_root, relpath) ==
    CASE name = "max matches" -> _test_max_matches(rule, m)
      [] name = "pattern" -> _test_patterns(rule, relpath)
      [] name = "type" -> _test_type(rule, fullpath(src_root, relpath))
      [] name = "size" -> _test_size(rule, fullpath(src_root, relpath))

\* the loop of FileSelectRule.test from the i-th check on: the first failing
\* check returns (None, that check); when none fails the counter moves and
\* the rule's result is returned. ran lists the checks that were called.
RECURSIVE test_from(_, _, _, _, _, _)
test_from(i, ran, rule, m, src_root, relpath) ==
    IF i > Len(tests)
    THEN [result |-> <<rule.result>>, test |-> "None", ran |-> ran, matches |-> m + 1]
    ELSE IF ~FileSelectTest(tests[i], rule, m, src_root, relpath)
         THEN [result |-> <<>>, test |-> tests[i],
               ran |-> Append(ran, tests[i]), matches |-> m]
         ELSE test_from(i + 1, Append(ran, tests[i]), rule, m, src_root, relpath)

\* FileSelectRule.test(src_root, relpath) of a rule whose counter is m
test(rule, m, src_root, relpath) == test_from(1, <<>>, rule, m, src_root, relpath)

(***************************************************************************)
(* FileSelect.                                                             *)
(***************************************************************************)
\* _init_disabled: one forward scan, the flag as the last include or untyped
\* "*" exclude leaves it
RECURSIVE _init_disabled_from(_, _, _)
_init_disabled_from(i, disabled, rules) ==
    IF i > Len(rules) THEN disabled
    ELSE IF rules[i].result THEN _init_disabled_from(i + 1, FALSE, rules)
    ELSE IF p_star \in Range(rules[i].patterns) /\ IsNone(rules[i].type)
         THEN _init_disabled_from(i + 1, TRUE, rules)
    ELSE _init_disabled_from(i + 1, disabled, rules)

_init_disabled(rules) == _init_disabled_from(1, FALSE, rules)

\* reduce_file_select_results: the last result that is not None, from the end
RECURSIVE reduce_file_select_results(_)
RECURSIVE reduce_first_result(_)
\* a reduction that lets the first result that is not None decide
reduce_first_result(results) ==
    IF results = <<>> THEN [result |-> <<>>, test |-> "None"]
    ELSE IF results[1].result # <<>>
         THEN [result |-> results[1].result, test |-> results[1].test]
         ELSE reduce_first_result(Tail(results))
reduce_file_select_results(results) ==
    IF results = <<>> THEN [result |-> <<>>, test |-> "None"]
    ELSE IF results[Len(results)].result # <<>>
         THEN [result |-> results[Len(results)].result,
               test |-> results[Len(results)].test]
         ELSE reduce_file_select_results(SubSeq(results, 1, Len(results) - 1))

\* one entry of select_file's rule_results, with the rule's new counter
Tested(t, i, rules) ==
    [result |-> t.result, test |-> t.test, idx |-> i, rule |-> rules[i],
     matches |-> t.matches]

\* a select_file that stops at the first rule with a definite result
RECURSIVE select_results_until_definite(_, _, _, _, _)
select_results_definite(t, i, rules, ms, src_root, relpath) ==
    <<Tested(t, i, rules)>>
    \o IF t.result # <<>> THEN <<>>
       ELSE select_results_until_definite(i + 1, rules, ms, src_root, relpath)
select_results_until_definite(i, rules, ms, src_root, relpath) ==
    IF i > Len(rules) THEN <<>>
    ELSE IF rules[i].type = <<"dir">>
         THEN select_results_until_definite(i + 1, rules, ms, src_root, relpath)
         ELSE select_results_definite(test(rules[i], ms[i], src_root, relpath),
                                      i, rules, ms, src_root, relpath)

\* the comprehension of select_file: rule.test for every rule whose type is
\* not "dir", in list order
RECURSIVE select_results_from(_, _, _, _, _)
select_results_from(i, rules, ms, src_root, relpath) ==
    IF i > Len(rules) THEN <<>>
    ELSE IF rules[i].type = <<"dir">>
         THEN select_results_from(i + 1, rules, ms, src_root, relpath)
         ELSE <<Tested(test(rules[i], ms[i], src_root, relpath), i, rules)>>
              \o select_results_from(i + 1, rules, ms, src_root, relpath)

\* the (result, test), rule pairs select_file returns
RuleResults(tested) ==
    [k \in DOMAIN tested |->
        [result |-> tested[k].result, test |-> tested[k].test,
         idx |-> tested[k].idx, rule |-> tested[k].rule]]

\* the counters after select_file: the rules it tested have their new count
RECURSIVE select_matches(_, _, _)
select_matches(k, tested, ms) ==
    IF k > Len(tested) THEN ms
    ELSE select_matches(k + 1, tested,
                        [ms EXCEPT ![tested[k].idx] = tested[k].matches])

\* select_file once every rule has been tested
select_file_of(tested, ms) ==
    [selected |-> reduce_file_select_results(tested).result = <<TRUE>>,
     rule_results |-> RuleResults(tested),
     matches |-> select_matches(1, tested, ms)]

\* FileSelect.select_file(src_root, relpath)
select_file(rules, ms, src_root, relpath) ==
    select_file_of(select_results_from(1, rules, ms, src_root, relpath), ms)

\* the inner loop of prune_dirs for one directory: every "dir" rule is tested
\* in order, the counters move as it goes, the last result that is not None
\* is kept
RECURSIVE prune_rules_from(_, _, _, _, _, _)
prune_rules_next(t, i, last_rule_result, rules, ms, src_root, relpath) ==
    prune_rules_from(i + 1,
                     IF t.result # <<>> THEN t.result ELSE last_rule_result,
                     rules, [ms EXCEPT ![i] = t.matches], src_root, relpath)
prune_rules_from(i, last_rule_result, rules, ms, src_root, relpath) ==
    IF i > Len(rules) THEN [last |-> last_rule_result, matches |-> ms]
    ELSE IF rules[i].type # <<"dir">>
         THEN prune_rules_from(i + 1, last_rule_result, rules, ms, src_root, relpath)
         ELSE prune_rules_next(test(rules[i], ms[i], src_root, relpath), i,
                               last_rule_result, rules, ms, src_root, relpath)

\* the outer loop of prune_dirs over the sorted names; pruned collects the
\* names whose last result is False
RECURSIVE prune_names(_, _, _, _, _, _)
\* a loop that prunes every name no rule included
prune_names_unless_included(r, names, pruned, rules, src_root, relroot) ==
    prune_names(Tail(names),
                IF r.last # <<TRUE>> THEN Append(pruned, Head(names)) ELSE pruned,
                rules, r.matches, src_root, relroot)
prune_names_next(r, names, pruned, rules, src_root, relroot) ==
    prune_names(Tail(names),
                IF r.last = <<FALSE>> THEN Append(pruned, Head(names)) ELSE pruned,
                rules, r.matches, src_root, relroot)
prune_names(names, pruned, rules, ms, src_root, relroot) ==
    IF names = <<>> THEN [pruned |-> pruned, matches |-> ms]
    ELSE prune_names_next(
             prune_rules_from(1, <<>>, rules, ms, src_root,
                              join(relroot, Head(names))),
             names, pruned, rules, src_root, relroot)

\* a prune_dirs that reports the pruned names but leaves them in dirs
prune_dirs_keeping(r, dirs) ==
    [pruned |-> r.pruned, dirs |-> dirs, matches |-> r.matches]

\* prune_dirs once the loop has run: the pruned names leave dirs
prune_dirs_of(r, dirs) ==
    [pruned |-> r.pruned, dirs |-> dirs \ Range(r.pruned), matches |-> r.matches]

\* FileSelect.prune_dirs(src_root, relroot, dirs): the pruned names, the names
\* left in dirs, the counters afterwards
prune_dirs(rules, ms, src_root, relroot, dirs) ==
    prune_dirs_of(prune_names(sorted(dirs), <<>>, rules, ms, src_root, relroot),
                  dirs)

(***************************************************************************)
(* FileCopyHandler and copytree's source root.                             *)
(***************************************************************************)
\* errno of "No such file or directory", the one _try_copy_file ignores
ENOENT == 2
\* the errnos the model's copies fail with: ENOENT, and EACCES (13) for every
\* other I/O failure
Errnos == {ENOENT, 13}

\* what shutil.copyfile followed by shutil.copymode can do: succeed (None),
\* or raise an OSError (IOError is the same class) with an errno, from either
\* call; copyfile writes dest only when it succeeds
CopyOutcomes ==
    {[copyfile |-> <<>>, copymode |-> <<>>]}
    \cup {[copyfile |-> <<e>>, copymode |-> <<>>] : e \in Errnos}
    \cup {[copyfile |-> <<>>, copymode |-> <<e>>] : e \in Errnos}
CopyOk == [copyfile |-> <<>>, copymode |-> <<>>]

\* the OSError the two calls raise, if any: copymode runs only after copyfile
RaisedErrno(io) == IF io.copyfile # <<>> THEN io.copyfile ELSE io.copymode

\* a handle_copy_error that claims every error
handle_copy_error_claims(handler_cls, hook) == TRUE

\* FileCopyHandler.handle_copy_error returns False; a handler subclass that
\* overrides it returns what its code decides (hook)
handle_copy_error(handler_cls, hook) ==
    IF handler_cls = "FileCopyHandler" THEN FALSE ELSE hook

\* a _try_copy_file without the errno test: every error goes to the hook
_try_copy_file_every_errno(handler_cls, io, hook) ==
    [written |-> io.copyfile = <<>>,
     hook_called |-> RaisedErrno(io) # <<>>,
     handled |-> handle_copy_error(handler_cls, hook),
     raised |-> IF RaisedErrno(io) # <<>>
                   /\ ~handle_copy_error(handler_cls, hook)
                THEN "OSError" ELSE "None"]

\* FileCopyHandler._try_copy_file: errno 2 is ignored, any other error is
\* offered to handle_copy_error and raised again unless that returns true.
\* written: copyfile wrote dest; hook_called, handled: whether
\* handle_copy_error was called and what it returned
_try_copy_file(handler_cls, io, hook) ==
    [written |-> io.copyfile = <<>>,
     hook_called |-> RaisedErrno(io) \notin {<<>>, <<ENOENT>>},
     handled |-> handle_copy_error(handler_cls, hook),
     raised |-> IF RaisedErrno(io) \notin {<<>>, <<ENOENT>>}
                   /\ ~handle_copy_error(handler_cls, hook)
                THEN "OSError" ELSE "None"]

(***************************************************************************)
(* State.                                                                  *)
(***************************************************************************)
VARIABLES
    select_cls,   \* "FileSelect" or "DisabledFileSelect"
    root,         \* FileSelect.root: None or a relative path
    rules,        \* FileSelect.rules
    matches,      \* matches[i] is rules[i]._matches
    _disabled,    \* FileSelect._disabled: None until first asked
    pc,           \* where copytree stands: "idle", "impl", "walk", "finally"
    call,         \* the API call in progress or last made, with its arguments
    ret,          \* how the last finished API call ended
    src,          \* copytree's src
    stack,        \* directories os.walk has still to yield, next first
    relroot,      \* the relative path of the directory being processed
    pruned,       \* pruned names of that directory not yet reported
    files,        \* sorted file names of that directory not yet processed
    exc,          \* the exception copytree's try block is unwinding with
    events,       \* what the current copytree call has done, in order:
                  \* handler construction (init), directories walked,
                  \* select_file calls, handler callbacks, the outcome of
                  \* shutil's copy (copyfile), close
    dest,         \* relative paths written under dest
    ncalls,       \* API calls made
    nfaults       \* faults injected

vars == <<select_cls, root, rules, matches, _disabled, pc, call, ret, src,
          stack, relroot, pruned, files, exc, events, dest, ncalls, nfaults>>

walkvars == <<src, stack, relroot, pruned, files, exc, events, dest>>

NoCall == [op |-> "none"]
NoRet == [op |-> "none", raised |-> "None"]

\* the rule lists of at most MaxRules rules of a domain
RuleLists(domain) == UNION {[1..n -> domain] : n \in 0..MaxRules}

\* the state after FileSelect(root, rules) or DisabledFileSelect() is built
\* with rules of the domain
InitWith(domain, roots) ==
    /\ \/ /\ select_cls = "FileSelect"
          /\ root \in roots
          /\ rules \in RuleLists(domain)
       \/ /\ select_cls = "DisabledFileSelect"
          /\ root = <<>>
          /\ rules = <<>>
    /\ matches = [i \in DOMAIN rules |-> 0]
    /\ _disabled = <<>>
    /\ pc = "idle"
    /\ call = NoCall
    /\ ret = NoRet
    /\ src = <<>>
    /\ stack = <<>>
    /\ relroot = <<>>
    /\ pruned = <<>>
    /\ files = <<>>
    /\ exc = "None"
    /\ events = <<>>
    /\ dest = {}
    /\ ncalls = 0
    /\ nfaults = 0

\* the arguments of the direct calls of test, select_file and prune_dirs:
\* the source root, the files and the directories
ApiSrc == curdir
ApiFiles == {n_notes_txt, n_secret_txt, join(n_build, n_b_bin)}
ApiDirs == {n_build}

(***************************************************************************)
(* Direct calls on the FileSelect and its rules.                           *)
(***************************************************************************)
\* what a direct call leaves unchanged
ApiUnchanged == UNCHANGED <<select_cls, root, rules, _disabled, pc, walkvars, nfaults>>

\* rules[i].test(src_root, relpath)
TestReturns(t, i, path) ==
    /\ matches' = [matches EXCEPT ![i] = t.matches]
    /\ call' = [op |-> "test", rule |-> i, path |-> path, matches0 |-> matches]
    /\ ret' = [op |-> "test", raised |-> "None", result |-> t.result,
               test |-> t.test, ran |-> t.ran]
    /\ ncalls' = ncalls + 1
    /\ ApiUnchanged
CallTest(i, path) == TestReturns(test(rules[i], matches[i], ApiSrc, path), i, path)

\* select.select_file(src_root, relpath)
SelectFileReturns(r, path) ==
    /\ matches' = r.matches
    /\ call' = [op |-> "select_file", path |-> path, matches0 |-> matches]
    /\ ret' = [op |-> "select_file", raised |-> "None",
               selected |-> r.selected, rule_results |-> r.rule_results]
    /\ ncalls' = ncalls + 1
    /\ ApiUnchanged
CallSelectFile(path) ==
    SelectFileReturns(select_file(rules, matches, ApiSrc, path), path)

\* select.prune_dirs(src_root, relroot, dirs) with the directory's own listing
PruneDirsReturns(r, dir) ==
    /\ matches' = r.matches
    /\ call' = [op |-> "prune_dirs", path |-> dir, matches0 |-> matches]
    /\ ret' = [op |-> "prune_dirs", raised |-> "None",
               pruned |-> r.pruned, dirs |-> r.dirs]
    /\ ncalls' = ncalls + 1
    /\ ApiUnchanged
CallPruneDirs(dir) ==
    PruneDirsReturns(prune_dirs(rules, matches, ApiSrc, dir,
                                ListDirs(fullpath(ApiSrc, dir))), dir)

\* the caller may make a direct call on a FileSelect between copytree calls,
\* at most MaxCalls of them
CanCall == pc = "idle" /\ ncalls < MaxCalls /\ select_cls = "FileSelect"

(***************************************************************************)
(* copytree.                                                               *)
(***************************************************************************)
Event(op, path, results) == [op |-> op, path |-> path, results |-> results]

\* _ignored_path_select_result: not selected, one False entry with an
\* exclude rule made for the path (idx 0: not a rule of the FileSelect)
_ignored_path_select_result(path) ==
    [selected |-> FALSE,
     rule_results |-> <<[result |-> <<FALSE>>, test |-> "None", idx |-> 0,
                         rule |-> FileSelectRule(FALSE, <<path>>, <<>>, FALSE,
                                                 <<>>, <<>>, <<>>, <<>>)]>>]

\* _select_file_to_copy; evaluated tells whether select_file was called
Evaluated(r, evaluated) ==
    [selected |-> r.selected, rule_results |-> r.rule_results,
     matches |-> r.matches, evaluated |-> evaluated]
\* a _select_file_to_copy that asks the rules about every path
_select_file_to_copy_rules_only(src_root, relpath, ms, ignore) ==
    Evaluated(select_file(rules, ms, src_root, relpath), TRUE)
_select_file_to_copy(src_root, relpath, ms, ignore) ==
    IF relpath \in ignore
    THEN [selected |-> FALSE,
          rule_results |-> _ignored_path_select_result(relpath).rule_results,
          matches |-> ms, evaluated |-> FALSE]
    ELSE Evaluated(select_file(rules, ms, src_root, relpath), TRUE)

\* the disabled property: DisabledFileSelect answers True, FileSelect answers
\* from _disabled, which the first access fills
disabled_value == IF _disabled = <<>> THEN _init_disabled(rules) ELSE _disabled[1]
disabled == IF select_cls = "DisabledFileSelect" THEN TRUE ELSE disabled_value

ResetWalk ==
    /\ stack' = <<>>
    /\ relroot' = <<>>
    /\ pruned' = <<>>
    /\ files' = <<>>

\* a copytree that starts from new counters
CopytreeNewCounters(root_start, ignore, handler_cls) ==
    /\ pc = "idle"
    /\ ncalls' = ncalls + 1
    /\ call' = [op |-> "copytree", root_start |-> root_start, ignore |-> ignore,
                handler_cls |-> handler_cls, matches0 |-> matches,
                prev |-> call.op]
    /\ dest' = {}
    /\ exc' = "None"
    /\ ResetWalk
    /\ IF root_start = <<>>
       THEN /\ pc' = "idle"
            /\ ret' = [op |-> "copytree", raised |-> "AssertionError"]
            /\ src' = <<>>
            /\ events' = <<>>
       ELSE /\ pc' = "impl"
            /\ ret' = NoRet
            /\ src' = _copytree_src(root_start[1], root)
            /\ events' = <<Event("init", <<>>, <<>>)>>
    /\ matches' = [i \in DOMAIN rules |-> 0]
    /\ UNCHANGED <<select_cls, root, rules, _disabled, nfaults>>

\* copytree up to the try: _copytree_src asserts root_start, then the handler
\* is constructed; prev is the call made before this one
CopytreeCall(root_start, ignore, handler_cls) ==
    /\ pc = "idle"
    /\ ncalls' = ncalls + 1
    /\ call' = [op |-> "copytree", root_start |-> root_start, ignore |-> ignore,
                handler_cls |-> handler_cls, matches0 |-> matches,
                prev |-> call.op]
    /\ dest' = {}
    /\ exc' = "None"
    /\ ResetWalk
    /\ IF root_start = <<>>
       THEN /\ pc' = "idle"
            /\ ret' = [op |-> "copytree", raised |-> "AssertionError"]
            /\ src' = <<>>
            /\ events' = <<>>
       ELSE /\ pc' = "impl"
            /\ ret' = NoRet
            /\ src' = _copytree_src(root_start[1], root)
            /\ events' = <<Event("init", <<>>, <<>>)>>
    /\ UNCHANGED <<select_cls, root, rules, matches, _disabled, nfaults>>

\* the first call made on a new FileSelect is a copytree
Copytree(root_start, ignore, handler_cls) ==
    ncalls = 0 /\ CopytreeCall(root_start, ignore, handler_cls)

\* _copytree_impl up to the loop: return if select.disabled, else start
\* os.walk(src)
CopytreeImpl ==
    /\ pc = "impl"
    /\ _disabled' = IF select_cls = "DisabledFileSelect" THEN _disabled
                    ELSE <<disabled_value>>
    /\ IF disabled
       THEN /\ pc' = "finally"
            /\ stack' = <<>>
       ELSE /\ pc' = "walk"
            /\ stack' = <<src>>
    /\ UNCHANGED <<select_cls, root, rules, matches, call, ret, src, relroot,
                   pruned, files, exc, events, dest, ncalls, nfaults>>

\* one directory that os.walk yields: dirs.sort(), prune_dirs; os.walk goes on
\* into the names left in dirs, in their order, before the directories that
\* were pending
Descend(top, left) == [i \in DOMAIN left |-> join(top, left[i])]
\* a walk step that takes the files of the directory in reverse name order
WalkDirReversed(top, rel, p) ==
    /\ relroot' = rel
    /\ matches' = p.matches
    /\ pruned' = p.pruned
    /\ files' = [i \in 1..Cardinality(ListFiles(top)) |->
                    sorted(ListFiles(top))[Cardinality(ListFiles(top)) + 1 - i]]
    /\ stack' = Descend(top, sorted(p.dirs)) \o Tail(stack)
    /\ events' = Append(events, Event("walk", rel, <<>>))
WalkDirWith(top, rel, p) ==
    /\ relroot' = rel
    /\ matches' = p.matches
    /\ pruned' = p.pruned
    /\ files' = sorted(ListFiles(top))
    /\ stack' = Descend(top, sorted(p.dirs)) \o Tail(stack)
    /\ events' = Append(events, Event("walk", rel, <<>>))
WalkDirAt(top, rel) ==
    WalkDirWith(top, rel, prune_dirs(rules, matches, src, rel, ListDirs(top)))
WalkDir ==
    /\ pc = "walk" /\ pruned = <<>> /\ files = <<>> /\ stack # <<>>
    /\ WalkDirAt(Head(stack), _relpath(Head(stack), src))
    /\ UNCHANGED <<select_cls, root, rules, _disabled, pc, call, ret, src, exc,
                   dest, ncalls, nfaults>>

\* whether a fault may still be injected
CanFail == nfaults < MaxFaults

\* copy_handler.ignore(relpath, []) for the next pruned name; the ignore of a
\* handler subclass may raise
IgnorePruned(raises) ==
    /\ pc = "walk" /\ pruned # <<>>
    /\ raises => (call.handler_cls # "FileCopyHandler" /\ CanFail)
    /\ events' = Append(events, Event("ignore", join(relroot, Head(pruned)), <<>>))
    /\ pruned' = Tail(pruned)
    /\ IF raises
       THEN /\ pc' = "finally"
            /\ exc' = "HandlerError"
            /\ nfaults' = nfaults + 1
       ELSE UNCHANGED <<pc, exc, nfaults>>
    /\ UNCHANGED <<select_cls, root, rules, matches, _disabled, call, ret, src,
                   stack, relroot, files, dest, ncalls>>

\* the path of the file the walk processes next
NextFile == join(relroot, Head(files))

\* the next file of the directory when rule evaluation itself raises (an
\* error out of select_file): nothing is dispatched
SelectRaises ==
    /\ pc = "walk" /\ pruned = <<>> /\ files # <<>>
    /\ CanFail
    /\ NextFile \notin call.ignore
    /\ events' = Append(events, Event("select_file", NextFile, <<>>))
    /\ files' = Tail(files)
    /\ pc' = "finally"
    /\ exc' = "SelectError"
    /\ nfaults' = nfaults + 1
    /\ UNCHANGED <<select_cls, root, rules, matches, _disabled, call, ret, src,
                   stack, relroot, pruned, dest, ncalls>>

\* the events of _select_file_to_copy: select_file is called unless the path
\* is in the ignore set
SelectEvents(sel, relpath) ==
    IF sel.evaluated THEN Append(events, Event("select_file", relpath, <<>>))
    ELSE events

\* FileCopyHandler.copy has run with the outcome cp of _try_copy_file
Copied(sel, cp, io, relpath) ==
    /\ nfaults' = IF io # CopyOk THEN nfaults + 1 ELSE nfaults
    /\ events' = SelectEvents(sel, relpath)
                 \o <<Event("copy", relpath, sel.rule_results),
                      Event("copyfile", relpath, <<io>>)>>
                 \o IF cp.hook_called
                    THEN <<Event("handle_copy_error", relpath, <<cp.handled>>)>>
                    ELSE <<>>
    /\ dest' = IF cp.written THEN dest \cup {relpath} ELSE dest
    /\ exc' = cp.raised
    /\ pc' = IF cp.raised # "None" THEN "finally" ELSE pc

CopySelected(sel, relpath) ==
    /\ sel.selected
    /\ matches' = sel.matches
    /\ \E io \in CopyOutcomes, hook \in BOOLEAN :
          /\ io # CopyOk => CanFail
          /\ hook => (RaisedErrno(io) \notin {<<>>, <<ENOENT>>}
                      /\ call.handler_cls # "FileCopyHandler")
          /\ Copied(sel, _try_copy_file(call.handler_cls, io, hook), io, relpath)

\* the next file of the directory is selected: handler.copy, which is
\* FileCopyHandler.copy with the I/O outcome io and, when the error is
\* offered to a subclass's handle_copy_error, the hook's answer
CopyFile ==
    /\ pc = "walk" /\ pruned = <<>> /\ files # <<>>
    /\ CopySelected(_select_file_to_copy(src, NextFile, matches, call.ignore),
                    NextFile)
    /\ files' = Tail(files)
    /\ UNCHANGED <<select_cls, root, rules, _disabled, call, ret, src, stack,
                   relroot, pruned, ncalls>>

IgnoreUnselected(sel, relpath) ==
    /\ ~sel.selected
    /\ matches' = sel.matches
    /\ events' = Append(SelectEvents(sel, relpath),
                        Event("ignore", relpath, sel.rule_results))

\* the next file of the directory is not selected: handler.ignore, which may
\* raise in a subclass
IgnoreFile ==
    /\ pc = "walk" /\ pruned = <<>> /\ files # <<>>
    /\ IgnoreUnselected(_select_file_to_copy(src, NextFile, matches, call.ignore),
                        NextFile)
    /\ \E raises \in BOOLEAN :
          /\ raises => (call.handler_cls # "FileCopyHandler" /\ CanFail)
          /\ nfaults' = IF raises THEN nfaults + 1 ELSE nfaults
          /\ exc' = IF raises THEN "HandlerError" ELSE "None"
          /\ pc' = IF raises THEN "finally" ELSE pc
    /\ files' = Tail(files)
    /\ UNCHANGED <<select_cls, root, rules, _disabled, call, ret, src, stack,
                   relroot, pruned, dest, ncalls>>

\* os.walk is exhausted: _copytree_impl returns
WalkDone ==
    /\ pc = "walk" /\ pruned = <<>> /\ files = <<>> /\ stack = <<>>
    /\ pc' = "finally"
    /\ UNCHANGED <<select_cls, root, rules, matches, _disabled, call, ret, src,
                   stack, relroot, pruned, files, exc, events, dest, ncalls,
                   nfaults>>

\* a copytree that closes the handler after the call, not in a finally clause
CloseOnReturn ==
    /\ pc = "finally"
    /\ events' = IF exc = "None" THEN Append(events, Event("close", <<>>, <<>>))
                 ELSE events
    /\ ret' = [op |-> "copytree", raised |-> exc]
    /\ exc' = "None"
    /\ pc' = "idle"
    /\ ResetWalk
    /\ UNCHANGED <<select_cls, root, rules, matches, _disabled, call, src, dest,
                   ncalls, nfaults>>

\* the finally clause: handler.close(), then copytree returns or the
\* exception goes on to the caller
Finally ==
    /\ pc = "finally"
    /\ events' = Append(events, Event("close", <<>>, <<>>))
    /\ ret' = [op |-> "copytree", raised |-> exc]
    /\ exc' = "None"
    /\ pc' = "idle"
    /\ ResetWalk
    /\ UNCHANGED <<select_cls, root, rules, matches, _disabled, call, src, dest,
                   ncalls, nfaults>>

\* the arguments copytree is called with
RootStarts == {<<>>, <<curdir>>}
IgnoreSets == {{}, {n_secret_txt}}
HandlerClasses == {"FileCopyHandler", "Subclass"}

(***************************************************************************)
(* Specifications.                                                         *)
(*   Spec    : one copytree call on a new FileSelect, step by step.        *)
(*   ApiSpec : direct calls of test, select_file and prune_dirs on a       *)
(*             FileSelect, one after the other.                            *)
(*   TestSpec: direct calls of test on rules with size bounds and regex    *)
(*             patterns.                                                   *)
(***************************************************************************)
Init == InitWith(WalkRules, Roots)

Next ==
    \/ \E root_start \in RootStarts, ignore \in IgnoreSets,
          handler_cls \in HandlerClasses :
           Copytree(root_start, ignore, handler_cls)
    \/ CopytreeImpl
    \/ WalkDir
    \/ \E raises \in BOOLEAN : IgnorePruned(raises)
    \/ SelectRaises
    \/ CopyFile
    \/ IgnoreFile
    \/ WalkDone
    \/ Finally

Spec == Init /\ [][Next]_vars

ApiInit == InitWith(RuleDomain, {<<>>})

ApiNext ==
    /\ CanCall
    /\ \/ \E i \in DOMAIN rules, path \in ApiFiles \cup ApiDirs : CallTest(i, path)
       \/ \E path \in ApiFiles : CallSelectFile(path)
       \/ \E dir \in {<<>>} \cup ApiDirs : CallPruneDirs(dir)

ApiSpec == ApiInit /\ [][ApiNext]_vars

\* direct test calls on the rules of TestRules, on every file of the tree and
\* on a directory
TestPaths == FilePaths \cup {n_build}
TestInit == InitWith(TestRules, {<<>>})
TestNext ==
    /\ CanCall
    /\ \E i \in DOMAIN rules, path \in TestPaths : CallTest(i, path)
TestSpec == TestInit /\ [][TestNext]_vars

(***************************************************************************)
(* copyfiles(src, dest, files, handler_cls): the handler is constructed    *)
(* with an unused select, then handler.copy(path, unused) for each path of *)
(* the list. The handler is never closed, and an exception of a copy goes  *)
(* on to the caller.                                                       *)
(***************************************************************************)
\* the most paths a caller lists
MaxFiles == 2

\* the path lists a caller passes: relative paths, repeated or not
ListedPaths == {n_notes_txt, n_secret_txt, join(n_build, n_b_bin)}
FileLists == UNION {[1..n -> ListedPaths] : n \in 0..MaxFiles}

\* the rules of a FileSelect that exists beside the copyfiles call
FilesRules ==
    { include(<<p_star_txt>>, <<>>, <<>>, <<>>, <<>>),
      exclude(<<p_star>>, <<>>, <<>>, <<>>, <<>>) }

\* copyfiles up to the loop: the handler is constructed
Copyfiles(fs, handler_cls) ==
    /\ pc = "idle" /\ ncalls = 0
    /\ ncalls' = ncalls + 1
    /\ call' = [op |-> "copyfiles", files |-> fs, handler_cls |-> handler_cls,
                matches0 |-> matches]
    /\ ret' = NoRet
    /\ src' = curdir
    /\ dest' = {}
    /\ exc' = "None"
    /\ events' = <<Event("init", <<>>, <<>>)>>
    /\ files' = fs
    /\ pc' = "copyfiles"
    /\ UNCHANGED <<select_cls, root, rules, matches, _disabled, stack, relroot,
                   pruned, nfaults>>

\* a copyfiles that closes its handler when a copy raises, as copytree does
CopyfilesCopiedClosing(cp, io, path) ==
    /\ nfaults' = IF io # CopyOk THEN nfaults + 1 ELSE nfaults
    /\ events' = events
                 \o <<Event("copy", path, <<>>), Event("copyfile", path, <<io>>)>>
                 \o (IF cp.hook_called
                     THEN <<Event("handle_copy_error", path, <<cp.handled>>)>>
                     ELSE <<>>)
                 \o (IF cp.raised # "None"
                     THEN <<Event("close", <<>>, <<>>)>> ELSE <<>>)
    /\ dest' = IF cp.written THEN dest \cup {path} ELSE dest
    /\ IF cp.raised # "None"
       THEN /\ pc' = "idle"
            /\ ret' = [op |-> "copyfiles", raised |-> cp.raised]
            /\ files' = <<>>
       ELSE /\ files' = Tail(files)
            /\ UNCHANGED <<pc, ret>>

\* handler.copy(path, unused_rule_results) has run with the outcome cp of
\* _try_copy_file; an error it raises ends copyfiles
CopyfilesCopied(cp, io, path) ==
    /\ nfaults' = IF io # CopyOk THEN nfaults + 1 ELSE nfaults
    /\ events' = events
                 \o <<Event("copy", path, <<>>), Event("copyfile", path, <<io>>)>>
                 \o IF cp.hook_called
                    THEN <<Event("handle_copy_error", path, <<cp.handled>>)>>
                    ELSE <<>>
    /\ dest' = IF cp.written THEN dest \cup {path} ELSE dest
    /\ IF cp.raised # "None"
       THEN /\ pc' = "idle"
            /\ ret' = [op |-> "copyfiles", raised |-> cp.raised]
            /\ files' = <<>>
       ELSE /\ files' = Tail(files)
            /\ UNCHANGED <<pc, ret>>

\* a loop that leaves out a path it has copied before
CopyfilesCopyNew ==
    /\ pc = "copyfiles" /\ files # <<>>
    /\ IF \E k \in DOMAIN events :
             events[k].op = "copy" /\ events[k].path = Head(files)
       THEN /\ files' = Tail(files)
            /\ UNCHANGED <<pc, ret, events, dest, nfaults>>
       ELSE \E io \in CopyOutcomes, hook \in BOOLEAN :
               /\ io # CopyOk => CanFail
               /\ hook => (RaisedErrno(io) \notin {<<>>, <<ENOENT>>}
                           /\ call.handler_cls # "FileCopyHandler")
               /\ CopyfilesCopied(_try_copy_file(call.handler_cls, io, hook), io,
                                  Head(files))
    /\ UNCHANGED <<select_cls, root, rules, matches, _disabled, call, src, stack,
                   relroot, pruned, exc, ncalls>>

\* one turn of `for path in files`: handler.copy(path, unused_rule_results)
CopyfilesCopy ==
    /\ pc = "copyfiles" /\ files # <<>>
    /\ \E io \in CopyOutcomes, hook \in BOOLEAN :
          /\ io # CopyOk => CanFail
          /\ hook => (RaisedErrno(io) \notin {<<>>, <<ENOENT>>}
                      /\ call.handler_cls # "FileCopyHandler")
          /\ CopyfilesCopied(_try_copy_file(call.handler_cls, io, hook), io,
                             Head(files))
    /\ UNCHANGED <<select_cls, root, rules, matches, _disabled, call, src, stack,
                   relroot, pruned, exc, ncalls>>

\* the list is exhausted: copyfiles returns None
CopyfilesReturn ==
    /\ pc = "copyfiles" /\ files = <<>>
    /\ pc' = "idle"
    /\ ret' = [op |-> "copyfiles", raised |-> "None"]
    /\ UNCHANGED <<select_cls, root, rules, matches, _disabled, call, src, stack,
                   relroot, pruned, files, exc, events, dest, ncalls, nfaults>>

\* FilesSpec: one copyfiles call, step by step
FilesInit == InitWith(FilesRules, {<<>>})
FilesNext ==
    \/ \E fs \in FileLists, handler_cls \in HandlerClasses :
           Copyfiles(fs, handler_cls)
    \/ CopyfilesCopy
    \/ CopyfilesReturn
FilesSpec == FilesInit /\ [][FilesNext]_vars

(***************************************************************************)
(* files_digest(paths, root_dir): one md5 over, for each path in list      *)
(* order, the UTF-8 bytes of the path with "/" separators, a zero byte,   *)
(* the bytes of the file and another zero byte.                            *)
(***************************************************************************)
\* the most bytes a file of the digested directory holds
MaxContent == 2

\* the files under root_dir and the bytes files hold: zero and "a"
DigestNames == {<<"a">>, <<"b">>, <<"d", Sep, "a">>}
DigestBytes == {0, Ord("a")}
Contents == UNION {[1..n -> DigestBytes] : n \in 0..MaxContent}
DigestDirs == [DigestNames -> Contents]
DigestLists == UNION {[1..n -> DigestNames] : n \in 0..MaxFiles}

\* _path_for_digest: os.path.sep becomes "/"
_path_for_digest(path) ==
    [i \in DOMAIN path |-> IF path[i] = Sep THEN "/" ELSE path[i]]

\* _encode_file_path_for_digest: the UTF-8 bytes of an ASCII path
_encode_file_path_for_digest(path) == [i \in DOMAIN path |-> Ord(path[i])]

\* _apply_digest_file_bytes: every byte of the file goes to the digest, in
\* order (d is what the digest has been fed so far)
_apply_digest_file_bytes(content, d) == d \o content

\* md5.hexdigest(): the hash is taken as injective, so the digest stands for
\* the bytes fed to it
hexdigest(d) == <<"md5", d>>

\* a files_digest that leaves the path bytes out
RECURSIVE files_digest_contents(_, _, _)
files_digest_contents(paths, root_dir, d) ==
    IF paths = <<>> THEN hexdigest(d)
    ELSE files_digest_contents(
             Tail(paths), root_dir,
             _apply_digest_file_bytes(root_dir[Head(paths)], d \o <<0>>) \o <<0>>)

\* files_digest from the state d of the md5: the loop over paths
RECURSIVE files_digest_from(_, _, _)
files_digest_from(paths, root_dir, d) ==
    IF paths = <<>> THEN hexdigest(d)
    ELSE files_digest_from(
             Tail(paths), root_dir,
             _apply_digest_file_bytes(
                 root_dir[Head(paths)],
                 d \o _encode_file_path_for_digest(_path_for_digest(Head(paths)))
                   \o <<0>>) \o <<0>>)
files_digest(paths, root_dir) == files_digest_from(paths, root_dir, <<>>)

\* files_digest(paths, root_dir) is called on a directory with the files
\* root_dir; prev is the files_digest call made before, with its digest
FilesDigestCall(paths, root_dir) ==
    /\ pc = "idle"
    /\ ncalls' = ncalls + 1
    /\ call' = [op |-> "files_digest", paths |-> paths, root_dir |-> root_dir,
                prev |-> IF call.op = "files_digest"
                         THEN <<[paths |-> call.paths, root_dir |-> call.root_dir,
                                 digest |-> ret.digest]>>
                         ELSE <<>>]
    /\ ret' = [op |-> "files_digest", raised |-> "None",
               digest |-> files_digest(paths, root_dir)]
    /\ UNCHANGED <<select_cls, root, rules, matches, _disabled, pc, walkvars,
                   nfaults>>

\* the first call of a behaviour is a files_digest
CallFilesDigest(paths, root_dir) ==
    ncalls = 0 /\ FilesDigestCall(paths, root_dir)

\* DigestSpec: one files_digest call
DigestInit == InitWith({}, {<<>>})
DigestNext ==
    /\ pc = "idle" /\ ncalls = 0
    /\ \E paths \in DigestLists, root_dir \in DigestDirs :
          CallFilesDigest(paths, root_dir)
DigestSpec == DigestInit /\ [][DigestNext]_vars

\* FrameSpec: two files_digest calls, each on its own state of a directory
\* that holds the one file a, of up to MaxContent + 1 bytes, listed up to
\* MaxFiles times
FrameNames == {<<"a">>}
FrameDirs ==
    [FrameNames -> UNION {[1..n -> DigestBytes] : n \in 0..(MaxContent + 1)}]
FrameLists == UNION {[1..n -> FrameNames] : n \in 0..MaxFiles}
FrameInit == InitWith({}, {<<>>})
FrameNext ==
    /\ pc = "idle" /\ ncalls < MaxCalls
    /\ \E paths \in FrameLists, root_dir \in FrameDirs :
          FilesDigestCall(paths, root_dir)
FrameSpec == FrameInit /\ [][FrameNext]_vars

(***************************************************************************)
(* disk_usage(path): _file_size(path) plus _file_size of every name that   *)
(* os.walk(path, followlinks=False) lists.  The directory it is called on: *)
(*     t/  f  d/  d/g  l -> d, f or nothing                                *)
(* A disk is a record: size (st_size of each entry itself), target (what   *)
(* the link l points to), noread (the entries whose stat and lstat raise   *)
(* OSError), listable (whether scandir of d succeeds).                     *)
(***************************************************************************)
\* the largest st_size of an entry
MaxSize == 2

Nodes == {"t", "f", "d", "g", "l"}
Disks ==
    [size : [Nodes -> 1..MaxSize],
     target : {"d", "f", "none"},
     noread : {S \in SUBSET Nodes : Cardinality(S) <= MaxFaults},
     listable : BOOLEAN]

\* the names in a directory entry
children(node) ==
    CASE node = "t" -> {"f", "d", "l"}
      [] node = "d" -> {"g"}
      [] OTHER -> {}

\* the entry a path below t names, the path's own links followed (stat) or
\* its last one not (lstat); "none" when there is no such entry
follow(node, disk) == IF node = "l" THEN disk.target ELSE node
RECURSIVE lnode(_, _)
lnode(path, disk) ==
    IF path = <<>> THEN "t"
    ELSE IF path[Len(path)]
            \in children(follow(lnode(SubSeq(path, 1, Len(path) - 1), disk), disk))
         THEN path[Len(path)]
         ELSE "none"
node(path, disk) == follow(lnode(path, disk), disk)

\* os.path.islink, and the is_dir() of a directory entry, which follows links
du_islink(path, disk) == lnode(path, disk) = "l"
du_isdir(path, disk) == node(path, disk) \in {"t", "d"}

\* os.lstat(path).st_size and os.stat(path).st_size: <<size>>, or <<>> for
\* an OSError
lstat_size(path, disk) ==
    IF lnode(path, disk) = "none" \/ lnode(path, disk) \in disk.noread
    THEN <<>> ELSE <<disk.size[lnode(path, disk)]>>
stat_size(path, disk) ==
    IF \/ node(path, disk) = "none"
       \/ lnode(path, disk) \in disk.noread
       \/ node(path, disk) \in disk.noread
    THEN <<>> ELSE <<disk.size[node(path, disk)]>>

\* a _file_size that always uses os.stat
_file_size_stat(path, disk) ==
    IF stat_size(path, disk) = <<>> THEN 0 ELSE stat_size(path, disk)[1]

\* _file_size: lstat for a link, stat otherwise; 0 when that raises OSError
_file_size(path, disk) ==
    IF du_islink(path, disk)
    THEN (IF lstat_size(path, disk) = <<>> THEN 0 ELSE lstat_size(path, disk)[1])
    ELSE (IF stat_size(path, disk) = <<>> THEN 0 ELSE stat_size(path, disk)[1])

\* what scandir(top) lists: nothing when top is no directory or cannot be
\* listed (os.walk ignores the error)
du_listdir(top, disk) ==
    IF du_isdir(top, disk) /\ (node(top, disk) = "d" => disk.listable)
    THEN children(node(top, disk)) ELSE {}

\* the sum over os.walk(top, followlinks=False) of _file_size of every name in
\* dirs + names; the walk goes down the directories that are not links
RECURSIVE walk_total(_, _, _), walk_total_next(_, _, _, _)
walk_total(top, names, disk) ==
    IF names = {} THEN 0
    ELSE walk_total_next(top, CHOOSE n \in names : TRUE, names, disk)
walk_total_next(top, name, names, disk) ==
    _file_size(top \o <<name>>, disk)
    + (IF du_isdir(top \o <<name>>, disk) /\ ~du_islink(top \o <<name>>, disk)
       THEN walk_total(top \o <<name>>, du_listdir(top \o <<name>>, disk), disk)
       ELSE 0)
    + walk_total(top, names \ {name}, disk)

disk_usage(path, disk) ==
    _file_size(path, disk) + walk_total(path, du_listdir(path, disk), disk)

\* the paths disk_usage is called on
DuPaths == {<<>>, <<"d">>, <<"l">>, <<"f">>}

CallDiskUsage(path, disk) ==
    /\ pc = "idle" /\ ncalls = 0
    /\ ncalls' = ncalls + 1
    /\ call' = [op |-> "disk_usage", path |-> path, disk |-> disk]
    /\ ret' = [op |-> "disk_usage", raised |-> "None",
               total |-> disk_usage(path, disk)]
    /\ UNCHANGED <<select_cls, root, rules, matches, _disabled, pc, walkvars,
                   nfaults>>

\* DuSpec: one disk_usage call
DuInit == InitWith({}, {<<>>})
DuNext ==
    /\ pc = "idle" /\ ncalls = 0
    /\ \E path \in DuPaths, disk \in Disks : CallDiskUsage(path, disk)
DuSpec == DuInit /\ [][DuNext]_vars

(***************************************************************************)
(* find_up(relpath, start_dir, stop_dir, check): from start_dir upwards,   *)
(* the first join(cur, relpath) that check accepts.  Directories are       *)
(* absolute paths, written as the sequence of their names (<<>> is the     *)
(* filesystem root); /h is a directory of its own or a link to /d.         *)
(***************************************************************************)
\* the most names in a start_dir
MaxDepth == 3

DirNames == {"h", "d", "u"}
AbsDirs == UNION {[1..n -> DirNames] : n \in 0..MaxDepth}

\* os.getcwd() and os.path.expanduser("~")
Cwd == <<"h">>
_user_home == <<"h", "u">>

\* the start_dir and stop_dir arguments: None (<<>>), an absolute or a
\* relative path
StartArgs ==
    {<<>>} \cup {<<[abs |-> TRUE, segs |-> d]>> : d \in AbsDirs}
           \cup {<<[abs |-> FALSE, segs |-> <<"u">>]>>}
StopArgs ==
    {<<>>} \cup {<<[abs |-> TRUE, segs |-> d]>> :
                    d \in {<<>>, <<"h">>, <<"h", "u">>, <<"d", "u">>}}
           \cup {<<[abs |-> FALSE, segs |-> <<"u">>]>>}

\* the directories check may accept join(cur, relpath) in
CheckDirs == {<<>>, <<"h", "u">>, <<"d", "u">>}

\* os.path.abspath, os.path.dirname (the root is its own parent) and
\* os.path.join(cur, relpath) for a relative relpath
abspath(p) == IF p.abs THEN p.segs ELSE Cwd \o p.segs
dirname(cur) == IF cur = <<>> THEN <<>> ELSE SubSeq(cur, 1, Len(cur) - 1)
find_up_join(cur, relpath) == cur \o relpath

\* util.realpath: the absolute path with its links resolved
realpath(p, linked) ==
    IF linked /\ abspath(p) # <<>> /\ Head(abspath(p)) = "h"
    THEN <<"d">> \o Tail(abspath(p))
    ELSE abspath(p)

\* find_up up to the loop; linked and accepts are the filesystem and the
\* directories check accepts the target in
FindUp(relpath, start_dir, stop_dir, linked, accepts) ==
    /\ pc = "idle" /\ ncalls = 0
    /\ ncalls' = ncalls + 1
    /\ call' = [op |-> "find_up", relpath |-> relpath, linked |-> linked,
                accepts |-> accepts,
                start_dir |-> IF start_dir # <<>> THEN abspath(start_dir[1])
                              ELSE Cwd,
                stop_dir |-> IF stop_dir # <<>>
                             THEN realpath(stop_dir[1], linked)
                             ELSE _user_home,
                stop_given |-> stop_dir # <<>>,
                cur |-> IF start_dir # <<>> THEN abspath(start_dir[1]) ELSE Cwd]
    /\ ret' = NoRet
    /\ pc' = "find_up"
    /\ UNCHANGED <<select_cls, root, rules, matches, _disabled, walkvars,
                   nfaults>>

FindUpReturns(result) ==
    /\ pc' = "idle"
    /\ ret' = [op |-> "find_up", raised |-> "None", result |-> result]
    /\ UNCHANGED call

\* a loop that does not end at the filesystem root
FindUpStepPastRoot ==
    /\ pc = "find_up"
    /\ IF call.cur \in call.accepts
       THEN FindUpReturns(<<find_up_join(call.cur, call.relpath)>>)
       ELSE IF realpath([abs |-> TRUE, segs |-> call.cur], call.linked)
               = call.stop_dir
       THEN FindUpReturns(<<>>)
       ELSE /\ call' = [call EXCEPT !.cur = dirname(call.cur)]
            /\ UNCHANGED <<pc, ret>>
    /\ UNCHANGED <<select_cls, root, rules, matches, _disabled, walkvars,
                   ncalls, nfaults>>

\* a loop that tests for stop_dir before it tests the target
FindUpStepStopFirst ==
    /\ pc = "find_up"
    /\ IF realpath([abs |-> TRUE, segs |-> call.cur], call.linked) = call.stop_dir
       THEN FindUpReturns(<<>>)
       ELSE IF call.cur \in call.accepts
       THEN FindUpReturns(<<find_up_join(call.cur, call.relpath)>>)
       ELSE IF dirname(call.cur) = call.cur
       THEN FindUpReturns(<<>>)
       ELSE /\ call' = [call EXCEPT !.cur = dirname(call.cur)]
            /\ UNCHANGED <<pc, ret>>
    /\ UNCHANGED <<select_cls, root, rules, matches, _disabled, walkvars,
                   ncalls, nfaults>>

\* one turn of the loop of find_up
FindUpStep ==
    /\ pc = "find_up"
    /\ IF call.cur \in call.accepts
       THEN FindUpReturns(<<find_up_join(call.cur, call.relpath)>>)
       ELSE IF realpath([abs |-> TRUE, segs |-> call.cur], call.linked)
               = call.stop_dir
       THEN FindUpReturns(<<>>)
       ELSE IF dirname(call.cur) = call.cur
       THEN FindUpReturns(<<>>)
       ELSE /\ call' = [call EXCEPT !.cur = dirname(call.cur)]
            /\ UNCHANGED <<pc, ret>>
    /\ UNCHANGED <<select_cls, root, rules, matches, _disabled, walkvars,
                   ncalls, nfaults>>

\* FindSpec: one find_up call, turn by turn; a call that has started goes on
\* running
FindInit == InitWith({}, {<<>>})
FindNext ==
    \/ /\ pc = "idle" /\ ncalls = 0
       /\ \E start_dir \in StartArgs, stop_dir \in StopArgs, linked \in BOOLEAN,
             accepts \in SUBSET CheckDirs :
              FindUp(<<"x">>, start_dir, stop_dir, linked, accepts)
    \/ FindUpStep
FindSpec == FindInit /\ [][FindNext]_vars /\ WF_vars(FindUpStep)

(***************************************************************************)
(* FileSelectRule(result, patterns, type=...): the constructor validates   *)
(* type and raises ValueError for a value that is neither None nor one of  *)
(* the valid names; otherwise the rule object exists.                      *)
(***************************************************************************)
\* the type values a caller passes: None, the valid names and others
TypeArgs ==
    {<<>>, <<"text">>, <<"binary">>, <<"dir">>, <<"file">>, <<"">>, <<"Text">>,
     <<"directory">>}
NewPatterns == {p_star, p_star_txt, n_build}
NewSizes == {<<>>, <<0>>, <<100>>}

\* FileSelectRule(result, [pattern], type=type, regex=regex, size_gt=size_gt)
NewFileSelectRule(result, pattern, type, regex, size_gt) ==
    /\ pc = "idle" /\ ncalls = 0
    /\ ncalls' = ncalls + 1
    /\ call' = [op |-> "FileSelectRule", result |-> result, pattern |-> pattern,
                type |-> type, regex |-> regex, size_gt |-> size_gt]
    /\ ret' = IF _validate_type(type)
              THEN [op |-> "FileSelectRule", raised |-> "None",
                    rule |-> <<FileSelectRule(result, <<pattern>>, type, regex,
                                              <<>>, size_gt, <<>>, <<>>)>>,
                    matches |-> <<0>>]
              ELSE [op |-> "FileSelectRule", raised |-> "ValueError",
                    rule |-> <<>>, matches |-> <<>>]
    /\ UNCHANGED <<select_cls, root, rules, matches, _disabled, pc, walkvars,
                   nfaults>>

\* NewSpec: one FileSelectRule construction
NewInit == InitWith({}, {<<>>})
NewNext ==
    /\ pc = "idle" /\ ncalls = 0
    /\ \E result \in BOOLEAN, pattern \in NewPatterns, type \in TypeArgs,
          regex \in BOOLEAN, size_gt \in NewSizes :
           NewFileSelectRule(result, pattern, type, regex, size_gt)
NewSpec == NewInit /\ [][NewNext]_vars

\* PruneSpec: direct calls of prune_dirs with a directory's listing, on rules
\* of every type, with and without a sentinel
PruneRules ==
    { exclude(<<p_star>>, <<"dir">>, <<>>, <<>>, <<>>),
      FileSelectRule(FALSE, <<p_star>>, <<"dir">>, FALSE, n_a_txt, <<>>, <<>>, <<>>),
      FileSelectRule(TRUE, <<p_star>>, <<"dir">>, FALSE, n_b_bin, <<>>, <<>>, <<>>),
      include(<<n_build>>, <<"dir">>, <<>>, <<>>, <<>>),
      exclude(<<p_star>>, <<>>, <<>>, <<>>, <<>>),
      exclude(<<p_star>>, <<"text">>, <<>>, <<>>, <<>>),
      exclude(<<p_star>>, <<"binary">>, <<>>, <<>>, <<>>) }
PruneInit == InitWith(PruneRules, {<<>>})
PruneNext ==
    /\ CanCall
    /\ \E dir \in {<<>>} \cup ApiDirs : CallPruneDirs(dir)
PruneSpec == PruneInit /\ [][PruneNext]_vars

\* SeqSpec: a session on one FileSelect: copytree calls and direct calls of
\* test, select_file and prune_dirs, one after the other
SeqRules ==
    { include(<<p_star_txt>>, <<>>, <<>>, <<>>, <<1>>),
      exclude(<<n_build>>, <<"dir">>, <<>>, <<>>, <<1>>),
      exclude(<<p_star>>, <<>>, <<>>, <<>>, <<0>>) }
SeqInit == InitWith(SeqRules, {<<>>})
SeqNext ==
    \/ CanCall /\ CopytreeCall(<<curdir>>, {}, "FileCopyHandler")
    \/ CopytreeImpl
    \/ WalkDir
    \/ IgnorePruned(FALSE)
    \/ CopyFile
    \/ IgnoreFile
    \/ WalkDone
    \/ Finally
    \/ CanCall /\ \E i \in DOMAIN rules : CallTest(i, n_notes_txt)
    \/ CanCall /\ CallSelectFile(n_secret_txt)
    \/ CanCall /\ CallPruneDirs(<<>>)
SeqSpec == SeqInit /\ [][SeqNext]_vars

(***************************************************************************)
(* Two walks that share one FileSelect.  Each walk calls select_file for   *)
(* the files of the top directory in sorted order; an evaluation of a rule *)
(* is the four checks of test (the max matches check reads the counter),   *)
(* then `self._matches += 1`, which reads the counter and writes it back.  *)
(* Nothing orders the walks: their checks, reads and writes interleave.    *)
(* The walks' frames are in call.walk; call.granted counts, for each rule, *)
(* the evaluations whose checks passed, call.torn tells whether an         *)
(* increment wrote over a counter that had moved since it was read.        *)
(***************************************************************************)
Walks == {1, 2}
ConcFiles == sorted(ListFiles(fullpath(ApiSrc, <<>>)))
ConcRules ==
    { include(<<p_star_txt>>, <<>>, <<>>, <<>>, <<2>>),
      include(<<p_star_txt>>, <<>>, <<>>, <<>>, <<1>>),
      exclude(<<n_secret_txt>>, <<>>, <<>>, <<>>, <<>>) }

\* the frame of a walk that starts
NewWalk(rs) ==
    [files |-> ConcFiles, i |-> 1, tmp |-> 0, results |-> <<>>, selected |-> {},
     pcw |-> IF rs = <<>> THEN "done" ELSE "check"]

\* the walk's frame after select_file has reduced the results of a file
FileDone(f, results, n) ==
    [files |-> Tail(f.files), i |-> 1, tmp |-> 0, results |-> <<>>,
     selected |-> IF reduce_file_select_results(results).result = <<TRUE>>
                  THEN f.selected \cup {Head(f.files)} ELSE f.selected,
     pcw |-> IF Tail(f.files) = <<>> THEN "done" ELSE "check"]

\* the walk's frame after rule f.i has returned result: the next rule, or the
\* next file when it was the last of the n rules
RuleDone(f, result, test_name, n) ==
    IF f.i = n
    THEN FileDone(f, Append(f.results, [result |-> result, test |-> test_name]), n)
    ELSE [f EXCEPT !.i = f.i + 1, !.pcw = "check",
                   !.results = Append(f.results,
                                      [result |-> result, test |-> test_name])]

\* two walks start on the FileSelect
StartWalks ==
    /\ pc = "idle" /\ ncalls = 0 /\ select_cls = "FileSelect"
    /\ ncalls' = ncalls + 1
    /\ pc' = "walks"
    /\ call' = [op |-> "walks", walk |-> [t \in Walks |-> NewWalk(rules)],
                granted |-> [i \in DOMAIN rules |-> 0], torn |-> FALSE]
    /\ ret' = NoRet
    /\ UNCHANGED <<select_cls, root, rules, matches, _disabled, walkvars,
                   nfaults>>

\* the checks of rule.test in walk t, r being what test would return
WalkChecked(t, f, r) ==
    /\ call' = IF r.result = <<>>
               THEN [call EXCEPT !.walk[t] = RuleDone(f, <<>>, r.test, Len(rules))]
               ELSE [call EXCEPT !.walk[t].pcw = "read",
                                 !.granted[f.i] = @ + 1]
    /\ UNCHANGED <<select_cls, root, rules, matches, _disabled, pc, ret,
                   walkvars, ncalls, nfaults>>
WalkCheck(t) ==
    /\ pc = "walks" /\ call.walk[t].pcw = "check"
    /\ WalkChecked(t, call.walk[t],
                   test(rules[call.walk[t].i], matches[call.walk[t].i], ApiSrc,
                        Head(call.walk[t].files)))

\* self._matches += 1, first half: the counter is read
WalkRead(t) ==
    /\ pc = "walks" /\ call.walk[t].pcw = "read"
    /\ call' = [call EXCEPT !.walk[t].tmp = matches[call.walk[t].i],
                            !.walk[t].pcw = "write"]
    /\ UNCHANGED <<select_cls, root, rules, matches, _disabled, pc, ret,
                   walkvars, ncalls, nfaults>>

\* an increment that never takes the counter above max_matches
WalkWriteCapped(t) ==
    /\ pc = "walks" /\ call.walk[t].pcw = "write"
    /\ matches' = [matches EXCEPT
                     ![call.walk[t].i] =
                        IF rules[call.walk[t].i].max_matches # <<>>
                           /\ call.walk[t].tmp >= rules[call.walk[t].i].max_matches[1]
                        THEN call.walk[t].tmp ELSE call.walk[t].tmp + 1]
    /\ call' = [call EXCEPT
                  !.walk[t] = RuleDone(call.walk[t],
                                       <<rules[call.walk[t].i].result>>, "None",
                                       Len(rules)),
                  !.torn = @ \/ matches[call.walk[t].i] # call.walk[t].tmp]
    /\ UNCHANGED <<select_cls, root, rules, _disabled, pc, ret, walkvars,
                   ncalls, nfaults>>

\* self._matches += 1, second half: the value read, plus one, is written, and
\* test returns the rule's result
WalkWrite(t) ==
    /\ pc = "walks" /\ call.walk[t].pcw = "write"
    /\ matches' = [matches EXCEPT ![call.walk[t].i] = call.walk[t].tmp + 1]
    /\ call' = [call EXCEPT
                  !.walk[t] = RuleDone(call.walk[t],
                                       <<rules[call.walk[t].i].result>>, "None",
                                       Len(rules)),
                  !.torn = @ \/ matches[call.walk[t].i] # call.walk[t].tmp]
    /\ UNCHANGED <<select_cls, root, rules, _disabled, pc, ret, walkvars,
                   ncalls, nfaults>>

\* both walks are over
WalksReturn ==
    /\ pc = "walks" /\ \A t \in Walks : call.walk[t].pcw = "done"
    /\ pc' = "idle"
    /\ ret' = [op |-> "walks", raised |-> "None",
               selected |-> [t \in Walks |-> call.walk[t].selected]]
    /\ UNCHANGED <<select_cls, root, rules, matches, _disabled, call, walkvars,
                   ncalls, nfaults>>

\* ConcSpec: two walks on one FileSelect, in any interleaving
ConcInit == InitWith(ConcRules, {<<>>})
ConcNext ==
    \/ StartWalks
    \/ \E t \in Walks : WalkCheck(t)
    \/ \E t \in Walks : WalkRead(t)
    \/ \E t \in Walks : WalkWrite(t)
    \/ WalksReturn
ConcSpec == ConcInit /\ [][ConcNext]_vars

(***************************************************************************)
(* Properties.                                                             *)
(***************************************************************************)
Last(S) == CHOOSE k \in S : \A j \in S : j <= k

\* the rules select_file consults for the call made, and the outcome of each
\* one's test with the counter it had when the call began
FileRules == {i \in DOMAIN rules : rules[i].type # <<"dir">>}
Outcome(i) == test(rules[i], call.matches0[i], ApiSrc, call.path).result
Determinate == {i \in FileRules : Outcome(i) # <<>>}

\* C1: select_file selects a file exactly when the last rule, in declared
\* order among the rules whose type is not "dir", whose outcome is not None
\* is an include rule; when no such rule has an outcome the file is not
\* selected.
C1_LastRuleWins ==
    ret.op = "select_file" =>
        ret.selected = (Determinate # {} /\ rules[Last(Determinate)].result)

\* [include('*.txt'), exclude('secret.txt')]: secret.txt is not selected,
\* although the include rule before the exclude matched it
C1_Witness ==
    /\ ret.op = "select_file"
    /\ rules = <<include(<<p_star_txt>>, <<>>, <<>>, <<>>, <<>>),
                 exclude(<<n_secret_txt>>, <<>>, <<>>, <<>>, <<>>)>>
    /\ call.path = n_secret_txt
    /\ Determinate = {1, 2}
    /\ ~ret.selected

\* the rule a direct test call was made on, and its counter before the call
TestedRule == rules[call.rule]
Reached(i) ==
    rules[i].max_matches # <<>> /\ call.matches0[i] >= rules[i].max_matches[1]

\* C6: a rule with max_matches = N is indeterminate once its counter has
\* reached N: a direct test then returns (None, max matches), select_file
\* records None for the rule so that the other rules decide, and the counter,
\* which counts the definite outcomes, never exceeds N.
C6_MaxMatchesExhausted ==
    /\ (ret.op = "test" /\ Reached(call.rule)) =>
           (ret.result = <<>> /\ ret.test = "max matches")
    /\ ret.op = "select_file" =>
           \A k \in DOMAIN ret.rule_results :
               Reached(ret.rule_results[k].idx) =>
                   ret.rule_results[k].result = <<>>
    /\ \A i \in DOMAIN rules :
           rules[i].max_matches # <<>> => matches[i] <= rules[i].max_matches[1]

\* include('*.txt', max_matches=1) has decided one path; the next test on a
\* path that its pattern matches is indeterminate
C6_Witness ==
    /\ ret.op = "test"
    /\ TestedRule = include(<<p_star_txt>>, <<>>, <<>>, <<>>, <<1>>)
    /\ call.matches0[call.rule] = 1
    /\ _test_patterns(TestedRule, call.path)
    /\ ret.result = <<>>
    /\ matches[call.rule] = 1

\* the checks of the pipeline in the order the claim gives them
Pipeline == <<"max matches", "pattern", "type", "size">>
Passes(k) ==
    FileSelectTest(Pipeline[k], TestedRule, call.matches0[call.rule], ApiSrc,
                   call.path)

\* C7: test runs max matches, pattern, type, size in this order and stops at
\* the first check that fails, returning (None, that check) with the counter
\* unchanged; when all four pass the counter goes up by exactly one and
\* (rule.result, None) is returned. The counter changes iff the outcome is
\* not None, and no other rule's counter changes.
C7_TestPipeline ==
    ret.op = "test" =>
        /\ Len(ret.ran) \in 1..4
        /\ ret.ran = SubSeq(Pipeline, 1, Len(ret.ran))
        /\ \A k \in 1..(Len(ret.ran) - 1) : Passes(k)
        /\ IF Passes(Len(ret.ran))
           THEN /\ Len(ret.ran) = 4
                /\ ret.result = <<TestedRule.result>>
                /\ ret.test = "None"
                /\ matches[call.rule] = call.matches0[call.rule] + 1
           ELSE /\ ret.result = <<>>
                /\ ret.test = Pipeline[Len(ret.ran)]
                /\ matches[call.rule] = call.matches0[call.rule]
        /\ (matches # call.matches0) = (ret.result # <<>>)
        /\ \A i \in DOMAIN rules \ {call.rule} : matches[i] = call.matches0[i]

\* exclude('*', type='binary') tested on the text file notes.txt stops at the
\* type check: the size check is not run and the counter stays
C7_Witness ==
    /\ ret.op = "test"
    /\ TestedRule = exclude(<<p_star>>, <<"binary">>, <<>>, <<>>, <<>>)
    /\ call.path = n_notes_txt
    /\ ret.ran = <<"max matches", "pattern", "type">>
    /\ ret.result = <<>>
    /\ ret.test = "type"
    /\ matches = call.matches0

\* the positions of the events of one kind, and the paths handed to the
\* handler's copy or ignore
EventsOf(op) == {k \in DOMAIN events : events[k].op = op}
Processed == {events[k].path : k \in EventsOf("copy") \cup EventsOf("ignore")}
Returned == pc = "idle" /\ ret.op = "copytree"

\* every file of every directory the walk has entered was handed to copy or
\* ignore
WalkedFilesProcessed ==
    \A w \in EventsOf("walk") :
        \A f \in ListFiles(fullpath(src, events[w].path)) :
            join(events[w].path, f) \in Processed

\* path lies strictly below the directory d
Below(path, d) ==
    Len(path) > Len(d) + 1 /\ SubSeq(path, 1, Len(d) + 1) = d \o <<Sep>>

\* the directories prune_dirs has pruned in this walk: those already reported
\* to handler.ignore and those of the current directory still to be reported
PrunedPaths ==
    {events[k].path : k \in {j \in EventsOf("ignore") :
                                isdir(fullpath(src, events[j].path))}}
    \cup {join(relroot, pruned[i]) : i \in DOMAIN pruned}

\* C2: once prune_dirs has pruned a directory the walk never enters it: the
\* directory is not walked nor pending, and nothing below it is walked, passed
\* to select_file or handed to handler.copy or handler.ignore.
C2_PruningAbsolute ==
    \A d \in PrunedPaths :
        /\ \A k \in DOMAIN events :
               /\ ~Below(events[k].path, d)
               /\ events[k].op = "walk" => events[k].path # d
        /\ \A i \in DOMAIN stack :
               /\ _relpath(stack[i], src) # d
               /\ ~Below(_relpath(stack[i], src), d)

\* [include('*'), exclude('build', type='dir')]: the walk is over, build was
\* pruned and notes.txt copied, and include('*') would select build/b.bin
C2_Witness ==
    /\ Returned /\ ret.raised = "None"
    /\ root = <<>>
    /\ rules = <<include(<<p_star>>, <<>>, <<>>, <<>>, <<>>),
                 exclude(<<n_build>>, <<"dir">>, <<>>, <<>>, <<>>)>>
    /\ n_build \in PrunedPaths
    /\ n_notes_txt \in dest
    /\ select_file(rules, matches, src, join(n_build, n_b_bin)).selected

\* a bare untyped exclude of '*': no type, no size bound, no max_matches
BareExcludeAll(r) ==
    /\ ~r.result
    /\ p_star \in Range(r.patterns)
    /\ r.type = <<>>
    /\ r.size_gt = <<>> /\ r.size_lt = <<>> /\ r.max_matches = <<>>
Deciding == {i \in DOMAIN rules : rules[i].result \/ BareExcludeAll(rules[i])}

\* C3: disabled is true iff the last rule that is an include rule or a bare
\* untyped exclude of '*' is such an exclude; no such rule gives false.
C3_DisabledIffBareExcludeLast ==
    _disabled # <<>> =>
        _disabled[1] = (Deciding # {} /\ ~rules[Last(Deciding)].result)

\* C4: a copytree call on a disabled select constructs one handler, calls
\* neither copy nor ignore, evaluates no rule (no counter moves), walks
\* nothing, and closes the handler exactly once before it returns.
C4_DisabledDoesNothing ==
    (Returned /\ disabled) =>
        /\ Cardinality(EventsOf("init")) = 1
        /\ EventsOf("copy") \cup EventsOf("ignore") = {}
        /\ EventsOf("select_file") = {} /\ matches = call.matches0
        /\ EventsOf("walk") = {}
        /\ EventsOf("close") = {Len(events)}

\* C5: when disabled is true no file can be selected: select_file answers
\* false for every file below the source root.
C5_DisabledSound ==
    _disabled = <<TRUE>> =>
        \A f \in RelFiles[src] : ~select_file(rules, matches, src, f).selected

\* C8: once the handler is constructed, copytree closes it exactly once on
\* every way out, and close is the last thing the call does: while the call
\* runs the handler is not closed, when it is over close is the last event.
C8_CloseExactlyOnce ==
    EventsOf("init") # {} =>
        IF pc = "idle" THEN EventsOf("close") = {Len(events)}
        ELSE EventsOf("close") = {}

\* a copy raised OSError out of copytree; the handler was closed after it
C8_Witness ==
    /\ Returned /\ ret.raised = "OSError"
    /\ EventsOf("copy") # {}
    /\ EventsOf("close") = {Len(events)}

\* shutil's copy of the file of event k failed with an errno other than ENOENT
OtherError(k) ==
    /\ events[k].op = "copyfile"
    /\ RaisedErrno(events[k].results[1]) \notin {<<>>, <<ENOENT>>}

\* C9: an I/O error other than not-found is offered to handle_copy_error;
\* the default hook returns False; when the hook returns False the error
\* leaves copytree and nothing but close follows; when it returns True no
\* exception is raised and the walk goes on: a call that returns normally
\* has processed every file of the directories it walked.
C9_CopyErrorOffered ==
    \A k \in DOMAIN events :
        OtherError(k) =>
            /\ k < Len(events)
            /\ events[k + 1].op = "handle_copy_error"
            /\ events[k + 1].path = events[k].path
            /\ call.handler_cls = "FileCopyHandler" =>
                   events[k + 1].results = <<FALSE>>
            /\ IF events[k + 1].results = <<FALSE>>
               THEN /\ \A j \in (k + 2)..Len(events) : events[j].op = "close"
                    /\ pc \in {"finally", "idle"}
                    /\ IF pc = "idle" THEN ret.raised = "OSError"
                       ELSE exc = "OSError"
               ELSE /\ k + 1 = Len(events) =>
                           (pc \in {"walk", "finally"} /\ exc = "None")
                    /\ (Returned /\ ret.raised = "None") => WalkedFilesProcessed

\* include('*') with the default handler: the copy of notes.txt fails with
\* EACCES, the hook returns False, OSError leaves copytree and secret.txt,
\* the next file, gets no callback
C9_Witness ==
    /\ Returned /\ ret.raised = "OSError"
    /\ call.handler_cls = "FileCopyHandler"
    /\ \E k \in DOMAIN events :
           /\ OtherError(k)
           /\ events[k].path = n_notes_txt
           /\ events[k + 1].results = <<FALSE>>
    /\ n_secret_txt \in RelFiles[src]
    /\ n_secret_txt \notin Processed

\* shutil.copyfile found no source file for the file of event k
NotFound(k) ==
    /\ events[k].op = "copyfile"
    /\ events[k].results[1].copyfile = <<ENOENT>>

\* C10: a selected file that is gone when it is copied is a silent no-op:
\* nothing is written, handle_copy_error is not called, no exception is
\* raised, and the walk goes on to every remaining file.
C10_NotFoundIgnored ==
    /\ \A k \in DOMAIN events :
           NotFound(k) =>
               /\ events[k].path \notin dest
               /\ k < Len(events) => events[k + 1].op # "handle_copy_error"
               /\ k = Len(events) => (pc \in {"walk", "finally"} /\ exc = "None")
    /\ (Returned /\ ret.raised = "None" /\ \E k \in DOMAIN events : NotFound(k)) =>
           WalkedFilesProcessed

\* notes.txt was gone when the default handler copied it; copytree returned
\* without an exception and a later file was copied
C10_Witness ==
    /\ Returned /\ ret.raised = "None"
    /\ call.handler_cls = "FileCopyHandler"
    /\ \E k \in DOMAIN events :
           /\ NotFound(k)
           /\ events[k].path = n_notes_txt
           /\ \E j \in EventsOf("copy") : j > k
    /\ n_notes_txt \notin dest
    /\ n_secret_txt \in dest

\* the walk is about to process a file whose path is in the ignore set
IgnoredNext ==
    /\ pc = "walk" /\ pruned = <<>> /\ files # <<>>
    /\ NextFile \in call.ignore

\* the diagnostics of an explicit ignore: one False entry whose rule is an
\* exclude rule made for the path alone
IgnoreDiagnostics(path, results) ==
    /\ Len(results) = 1
    /\ results[1].result = <<FALSE>>
    /\ results[1].rule = exclude(<<path>>, <<>>, <<>>, <<>>, <<>>)
    /\ results[1].idx \notin DOMAIN rules

\* C11: a file whose path is in the ignore set goes to handler.ignore with
\* exactly one False entry of a synthesized exclude rule, whatever the rules
\* say: the step makes no select_file call and no counter changes.
C11_IgnoreSetWins ==
    [][IgnoredNext =>
          /\ matches' = matches
          /\ Len(events') = Len(events) + 1
          /\ SubSeq(events', 1, Len(events)) = events
          /\ events'[Len(events')].op = "ignore"
          /\ events'[Len(events')].path = NextFile
          /\ IgnoreDiagnostics(NextFile, events'[Len(events')].results)]_vars

\* secret.txt is in the ignore set and was ignored although include('*')
\* selects it
C11_Witness ==
    /\ call.op = "copytree" /\ call.ignore = {n_secret_txt}
    /\ rules = <<include(<<p_star>>, <<>>, <<>>, <<>>, <<>>)>>
    /\ select_file(rules, matches, src, n_secret_txt).selected
    /\ \E k \in EventsOf("ignore") :
           /\ events[k].path = n_secret_txt
           /\ IgnoreDiagnostics(n_secret_txt, events[k].results)
    /\ \A k \in EventsOf("select_file") \cup EventsOf("copy") :
           events[k].path # n_secret_txt

\* the handler callbacks between the walk event w and the next walk event (or
\* close): the callbacks of one directory level
IsCallback(e) == e.op \in {"copy", "ignore"}
SegEnd(w) ==
    CHOOSE k \in (w + 1)..(Len(events) + 1) :
        /\ k <= Len(events) => events[k].op \in {"walk", "close"}
        /\ \A j \in (w + 1)..(k - 1) : events[j].op \notin {"walk", "close"}
LevelCallbacks(w) == SelectSeq(SubSeq(events, w + 1, SegEnd(w) - 1), IsCallback)

\* the subdirectories of the directory of walk event w that the walk never
\* entered, and the paths of a list of names of that directory
NotEntered(w) ==
    {n \in ListDirs(fullpath(src, events[w].path)) :
        \A v \in EventsOf("walk") : events[v].path # join(events[w].path, n)}
PathsIn(rel, names) == [i \in DOMAIN names |-> join(rel, names[i])]

\* the decision the diagnostics of a file callback record: the last entry
\* that is not None is True
Definite(results) == {i \in DOMAIN results : results[i].result # <<>>}
DecidedSelected(results) ==
    Definite(results) # {} /\ results[Last(Definite(results))].result = <<TRUE>>

\* C12: a copytree on a select that is not disabled, ended without an
\* exception: at each directory level the callbacks are one ignore with empty
\* diagnostics per subdirectory not entered, in sorted order, then one
\* callback per file, in sorted order, which is copy iff the file is not in
\* the ignore set and its diagnostics select it; no directory is walked
\* twice and a directory is walked after its parent's level is complete.
C12_OneCallbackEach ==
    (Returned /\ ret.raised = "None" /\ _disabled = <<FALSE>>) =>
        /\ \E w \in EventsOf("walk") : events[w].path = <<>>
        /\ \A w \in EventsOf("walk") :
               /\ [i \in DOMAIN LevelCallbacks(w) |-> LevelCallbacks(w)[i].path]
                     = PathsIn(events[w].path, sorted(NotEntered(w)))
                       \o PathsIn(events[w].path,
                                  sorted(ListFiles(fullpath(src, events[w].path))))
               /\ \A i \in DOMAIN LevelCallbacks(w) :
                      IF i <= Cardinality(NotEntered(w))
                      THEN /\ LevelCallbacks(w)[i].op = "ignore"
                           /\ LevelCallbacks(w)[i].results = <<>>
                      ELSE (LevelCallbacks(w)[i].op = "copy")
                             = (/\ LevelCallbacks(w)[i].path \notin call.ignore
                                /\ DecidedSelected(LevelCallbacks(w)[i].results))
               /\ \A v \in EventsOf("walk") :
                      v # w => events[v].path # events[w].path
               /\ events[w].path # <<>> =>
                      \E v \in EventsOf("walk") :
                          /\ v < w
                          /\ \E n \in ListDirs(fullpath(src, events[v].path)) :
                                 events[w].path = join(events[v].path, n)

\* [include('*.txt'), exclude('build', type='dir')] from the top: build is
\* ignored first, then notes.txt and secret.txt are copied in this order, and
\* data is walked afterwards, where b.bin is ignored
C12_Witness ==
    /\ Returned /\ ret.raised = "None" /\ _disabled = <<FALSE>>
    /\ root = <<>> /\ call.ignore = {}
    /\ rules = <<include(<<p_star_txt>>, <<>>, <<>>, <<>>, <<>>),
                 exclude(<<n_build>>, <<"dir">>, <<>>, <<>>, <<>>)>>
    /\ [i \in DOMAIN LevelCallbacks(2) |->
           <<LevelCallbacks(2)[i].op, LevelCallbacks(2)[i].path>>]
         = << <<"ignore", n_build>>, <<"copy", n_notes_txt>>,
              <<"copy", n_secret_txt>> >>
    /\ \E k \in EventsOf("ignore") : events[k].path = join(n_data, n_b_bin)

\* the size the size check of the last test call read, and whether the call
\* ran the size check and the check passed
TestedSize == safe_filesize(fullpath(ApiSrc, call.path))
SizeCheckRan == ret.op = "test" /\ Len(ret.ran) = 4
SizeCheckPassed == SizeCheckRan /\ ret.test # "size"

\* C13: with size_gt and size_lt both set and the size readable, the size
\* check passes only if size > size_gt and size < size_lt.
C13_BothSizeBounds ==
    (/\ SizeCheckRan /\ call.path \in FilePaths
     /\ TestedRule.size_gt # <<>> /\ TestedRule.size_lt # <<>>
     /\ TestedSize # <<>>) =>
        (SizeCheckPassed =>
            /\ TestedSize[1] > TestedRule.size_gt[1]
            /\ TestedSize[1] < TestedRule.size_lt[1])

\* C14: a rule with a size bound, tested on a file whose size cannot be
\* read, passes the size check: when its max matches, pattern and type checks
\* pass it returns its result and its counter goes up by one.
C14_UnreadableSizePasses ==
    (/\ ret.op = "test"
     /\ TestedRule.size_gt # <<>> \/ TestedRule.size_lt # <<>>
     /\ TestedSize = <<>>
     /\ Passes(1) /\ Passes(2) /\ Passes(3)) =>
        /\ SizeCheckPassed
        /\ ret.result = <<TestedRule.result>>
        /\ matches[call.rule] = call.matches0[call.rule] + 1

\* include('*', size_gt=7, size_lt=100) on build/sub/a.txt, whose size cannot
\* be read: the rule includes it and counts the match
C14_Witness ==
    /\ ret.op = "test"
    /\ TestedRule = include(<<p_star>>, <<>>, <<7>>, <<100>>, <<>>)
    /\ call.path = join(join(n_build, n_sub), n_a_txt)
    /\ TestedSize = <<>>
    /\ ret.ran = Pipeline
    /\ ret.result = <<TRUE>>
    /\ matches[call.rule] = call.matches0[call.rule] + 1

\* a regular expression of literals, "." and starred atoms matches all of s
RECURSIVE re_fullmatch(_, _)
re_fullmatch(s, pat) ==
    IF pat = <<>> THEN s = <<>>
    ELSE IF Len(pat) >= 2 /\ pat[2] = "*"
         THEN re_fullmatch(s, SubSeq(pat, 3, Len(pat)))
              \/ (s # <<>> /\ Head(pat) \in {".", Head(s)}
                  /\ re_fullmatch(Tail(s), pat))
         ELSE s # <<>> /\ Head(pat) \in {".", Head(s)}
              /\ re_fullmatch(Tail(s), Tail(pat))

\* C19: in regex mode the pattern check passes only if some pattern matches
\* the whole forward-slash form of the path.
C19_RegexFullMatch ==
    (/\ ret.op = "test" /\ TestedRule.regex
     /\ Len(ret.ran) >= 2 /\ ret.test # "pattern") =>
        \E i \in DOMAIN TestedRule.patterns :
            re_fullmatch(stdpath(call.path), TestedRule.patterns[i])


\* ---------------------------------------------------------------------------
\* C18: root_start is optional in copytree: when the caller omits it
\* (root_start = None) copytree resolves the source root from os.curdir,
\* joined with select.root when that is set, and proceeds with the walk
\* instead of failing: the call raises nothing, the handler is constructed
\* and the source root is _copytree_src(os.curdir, select).
RootStartOmitted == call.op = "copytree" /\ call.root_start = <<>>
C18_RootStartOptional ==
    RootStartOmitted =>
        /\ ret.raised # "AssertionError"
        /\ src = _copytree_src(curdir, root)
        /\ Len(events) >= 1 /\ events[1].op = "init"


\* ---------------------------------------------------------------------------
\* C15: copyfiles(src, dest, files) performs no rule evaluation and calls the
\* handler's copy exactly once for each entry of the given path list, in list
\* order (a path listed twice is copied twice), and for no other path; when
\* every copy succeeds the set of files written under dest is exactly the
\* given relative paths.  During the call the copies made are the entries the
\* loop has taken, in order; on return they are the whole list.
\* the paths handler.copy has been called with, in call order
RECURSIVE CopiesFrom(_)
CopiesFrom(k) ==
    IF k > Len(events) THEN <<>>
    ELSE (IF events[k].op = "copy" THEN <<events[k].path>> ELSE <<>>)
         \o CopiesFrom(k + 1)
Copies == CopiesFrom(1)
IsPrefix(s, t) == Len(s) <= Len(t) /\ s = SubSeq(t, 1, Len(s))
EveryCopySucceeds ==
    \A k \in EventsOf("copyfile") : events[k].results = <<CopyOk>>
InCopyfiles == call.op = "copyfiles"
CopyfilesReturned == InCopyfiles /\ pc = "idle" /\ ret.raised = "None"
C15_Copyfiles ==
    InCopyfiles =>
        /\ matches = call.matches0
        /\ EventsOf("select_file") = {} /\ EventsOf("ignore") = {}
        /\ IsPrefix(Copies, call.files)
        /\ pc = "copyfiles" => Len(Copies) + Len(files) = Len(call.files)
        /\ CopyfilesReturned => Copies = call.files
        /\ (CopyfilesReturned /\ EveryCopySucceeds) => dest = Range(call.files)
C15_Witness ==
    /\ CopyfilesReturned /\ EveryCopySucceeds
    /\ Len(call.files) = 2 /\ call.files[1] = call.files[2]
    /\ Copies = call.files
    /\ dest = {call.files[1]}


\* ---------------------------------------------------------------------------
\* C16: files_digest is deterministic and order-sensitive: for a fixed
\* filesystem state the same ordered path list always yields the same digest,
\* and for two files a and b that differ in name or content,
\* files_digest([a, b], root) differs from files_digest([b, a], root), the
\* hash being injective on the bytes fed to it.  The digest returned is the
\* hash of the bytes of the listed paths and files alone, and for a list of
\* two different files it is not the digest of the list the other way round.
DigestFed(path, root_dir) ==
    [i \in DOMAIN path |-> Ord(path[i])] \o <<0>> \o root_dir[path] \o <<0>>
C16_OrderSensitive ==
    (call.op = "files_digest" /\ Len(call.paths) = 2) =>
        /\ ret.digest = hexdigest(DigestFed(call.paths[1], call.root_dir)
                                  \o DigestFed(call.paths[2], call.root_dir))
        /\ call.paths[1] # call.paths[2] =>
               ret.digest # files_digest(<<call.paths[2], call.paths[1]>>,
                                         call.root_dir)
C16_Witness ==
    /\ call.op = "files_digest" /\ Len(call.paths) = 2
    /\ call.paths[1] # call.paths[2]
    /\ call.root_dir[call.paths[1]] = call.root_dir[call.paths[2]]
    /\ \E i \in DOMAIN call.root_dir[call.paths[1]] :
          call.root_dir[call.paths[1]][i] = 0
    /\ ret.digest # files_digest(<<call.paths[2], call.paths[1]>>, call.root_dir)


\* ---------------------------------------------------------------------------
\* C20: disk_usage never aborts: it returns the size of the root entry plus
\* the sum of the sizes of every directory and file entry found by a walk
\* that does not follow symlinks, counting a symbolic link by the link's own
\* size and counting any entry whose size cannot be read as zero bytes
\* (without raising).
\* the paths of the disk, and the size an entry counts with: its own st_size,
\* 0 when it cannot be read
AllDuPaths == {<<>>} \cup {<<n>> : n \in {"f", "d", "l"}}
                     \cup {<<n, "g">> : n \in {"d", "l"}}
OwnSize(q, disk) ==
    IF lnode(q, disk) = "none" \/ lnode(q, disk) \in disk.noread THEN 0
    ELSE disk.size[lnode(q, disk)]
\* the entries a walk from path finds: those below path that exist, with
\* every directory between path and the entry a listed directory that is no
\* link, and path itself a listed directory
FoundBelow(path, disk) ==
    {q \in AllDuPaths :
        /\ Len(q) > Len(path) /\ SubSeq(q, 1, Len(path)) = path
        /\ lnode(q, disk) # "none"
        /\ \A k \in Len(path)..(Len(q) - 1) :
              /\ node(SubSeq(q, 1, k), disk) \in {"t", "d"}
              /\ node(SubSeq(q, 1, k), disk) = "d" => disk.listable
              /\ k > Len(path) => lnode(SubSeq(q, 1, k), disk) # "l"}
RECURSIVE SumOwn(_, _)
SumOwn(S, disk) ==
    IF S = {} THEN 0
    ELSE OwnSize(CHOOSE q \in S : TRUE, disk)
         + SumOwn(S \ {CHOOSE q \in S : TRUE}, disk)
C20_DiskUsage ==
    call.op = "disk_usage" =>
        /\ ret.raised = "None"
        /\ ret.total = OwnSize(call.path, call.disk)
                       + SumOwn(FoundBelow(call.path, call.disk), call.disk)
C20_Witness ==
    /\ call.op = "disk_usage" /\ call.path = <<>>
    /\ call.disk.target = "d" /\ call.disk.listable
    /\ call.disk.size["l"] # call.disk.size["d"]
    /\ call.disk.noread = {"g"}
    /\ ret.total = call.disk.size["t"] + call.disk.size["f"]
                   + call.disk.size["d"] + call.disk.size["l"]


\* ---------------------------------------------------------------------------
\* C17: find_up always terminates and never raises: starting at start_dir it
\* tests join(cur, relpath) at each level moving to the parent directory,
\* returns the first path for which the check succeeds, and returns None as
\* soon as the current directory resolves to stop_dir or is the filesystem
\* root (its own parent) without a match; this holds also when start_dir is
\* not below stop_dir.
InFindUp == call.op = "find_up"
Resolves(dir) == realpath([abs |-> TRUE, segs |-> dir], call.linked) = call.stop_dir
\* the levels the loop has left behind: start_dir and its parents below cur
LevelsPassed ==
    {SubSeq(call.start_dir, 1, k) : k \in (Len(call.cur) + 1)..Len(call.start_dir)}
FindUpReturned == InFindUp /\ pc = "idle"
FindUpSafe ==
    InFindUp =>
        /\ ret.raised = "None"
        /\ IsPrefix(call.cur, call.start_dir)
        /\ \A dir \in LevelsPassed : dir \notin call.accepts /\ ~Resolves(dir)
        /\ FindUpReturned =>
              IF call.cur \in call.accepts
              THEN ret.result = <<call.cur \o call.relpath>>
              ELSE /\ ret.result = <<>>
                   /\ Resolves(call.cur) \/ call.cur = <<>>
C17_FindUpTerminates ==
    /\ []FindUpSafe
    /\ (pc = "find_up") ~> FindUpReturned
C17_Witness ==
    /\ FindUpReturned /\ ret.result = <<>>
    /\ call.cur = <<>> /\ ~Resolves(<<>>)
    /\ Len(call.start_dir) >= 2
    /\ ~IsPrefix(call.stop_dir, call.start_dir)


\* ---------------------------------------------------------------------------
\* C21: constructing a FileSelectRule with a type value other than None,
\* 'text', 'binary' or 'dir' is rejected immediately with an error and yields
\* no rule object; each of the four valid values is accepted and stored
\* unchanged.
Constructed == call.op = "FileSelectRule"
C21_TypeValidated ==
    Constructed =>
        IF call.type \in {<<>>, <<"text">>, <<"binary">>, <<"dir">>}
        THEN /\ ret.raised = "None"
             /\ Len(ret.rule) = 1 /\ ret.rule[1].type = call.type
        ELSE ret.raised = "ValueError" /\ ret.rule = <<>>
C21_Witness ==
    /\ Constructed /\ call.type = <<"directory">>
    /\ ret.raised = "ValueError" /\ ret.rule = <<>>


\* ---------------------------------------------------------------------------
\* C22: prune_dirs decides each child directory using only the rules whose
\* type is 'dir', in declared order with last-definite-wins: a child is pruned
\* (removed from the dirs list and returned) if and only if the last dir-typed
\* rule with a non-indeterminate outcome on it is an exclude; untyped, text
\* and binary rules never prune a directory, a dir-typed rule with a sentinel
\* is indeterminate for a directory that contains no match for the sentinel,
\* and children are processed and returned in sorted name order.
\* the dir-typed rules that are definite on a child directory: the pattern
\* matches, and some entry of the child matches the sentinel, if there is one
DirRulesOn(child) ==
    {i \in DOMAIN rules :
        /\ rules[i].type = <<"dir">>
        /\ \E k \in DOMAIN rules[i].patterns : fnmatch(child, rules[i].patterns[k])
        /\ rules[i].sentinel # <<>> =>
              \E e \in Tree : e.dir = Key(join(ApiSrc, child))
                              /\ fnmatch(e.name, rules[i].sentinel)}
ShouldPrune(child) ==
    DirRulesOn(child) # {} /\ ~rules[Last(DirRulesOn(child))].result
Children(dir) == ListDirs(fullpath(ApiSrc, dir))
PruneDirsCalled == call.op = "prune_dirs" /\ ret.op = "prune_dirs"
C22_PruneDirs ==
    PruneDirsCalled =>
        /\ Range(ret.pruned)
              = {n \in Children(call.path) : ShouldPrune(join(call.path, n))}
        /\ ret.dirs = Children(call.path) \ Range(ret.pruned)
        /\ \A j, k \in DOMAIN ret.pruned :
              j < k => StrLess(ret.pruned[j], ret.pruned[k])
\* [exclude dir '*', exclude dir '*' containing a.txt] on the top directory:
\* the sentinel rule is indeterminate on build and data, which hold no a.txt,
\* and the first rule prunes both, in sorted order
C22_Witness ==
    /\ PruneDirsCalled /\ call.path = <<>>
    /\ ret.pruned = <<n_build, n_data>> /\ ret.dirs = {}
    /\ Len(rules) = 2
    /\ rules[1].type = <<"dir">> /\ ~rules[1].result /\ rules[1].sentinel = <<>>
    /\ rules[2].type = <<"dir">> /\ rules[2].sentinel = n_a_txt


\* ---------------------------------------------------------------------------
\* C23: a rule's match counter starts at 0 and never decreases or resets
\* under any sequence of test, select_file, prune_dirs and copytree calls; in
\* particular the counters persist from one copytree call to the next on the
\* same RuleSet, so a max_matches rule exhausted in a first walk is
\* indeterminate for every path in a second walk.
CountersGrow == \A i \in DOMAIN rules : matches'[i] >= matches[i]
\* the rules whose max_matches was used up when the copytree call began
ExhaustedAtCall ==
    {i \in DOMAIN rules :
        rules[i].max_matches # <<>> /\ call.matches0[i] >= rules[i].max_matches[1]}
SecondWalk == call.op = "copytree" /\ call.prev = "copytree"
ExhaustedStaysOut ==
    call.op = "copytree" =>
        \A i \in ExhaustedAtCall :
            /\ matches[i] = call.matches0[i]
            /\ \A k \in EventsOf("copy") \cup EventsOf("ignore") :
               \A j \in DOMAIN events[k].results :
                   events[k].results[j].idx = i =>
                       /\ events[k].results[j].result = <<>>
                       /\ events[k].results[j].test = "max matches"
C23_CountersPersist ==
    /\ \A i \in DOMAIN rules : matches[i] >= 0
    /\ ncalls = 0 => \A i \in DOMAIN rules : matches[i] = 0
    /\ [][CountersGrow]_vars
    /\ []ExhaustedStaysOut
\* the second of two walks has returned: the first used up include('*.txt',
\* max_matches=1), so no .txt file was copied in the second
C23_Witness ==
    /\ SecondWalk /\ pc = "idle" /\ ret.op = "copytree" /\ ret.raised = "None"
    /\ rules = <<include(<<p_star_txt>>, <<>>, <<>>, <<>>, <<1>>)>>
    /\ ExhaustedAtCall = {1} /\ matches[1] = 1
    /\ dest = {}
    /\ Cardinality(EventsOf("ignore")) >= Cardinality(FilePaths)


\* ---------------------------------------------------------------------------
\* C25: under sequential use (one evaluation at a time), for every rule with
\* max_matches set to N >= 0 the invariant matches <= N holds in every
\* reachable state after any sequence of test, select_file, prune_dirs and
\* copytree calls.
C25_MatchesBounded ==
    \A i \in DOMAIN rules :
        rules[i].max_matches # <<>> => matches[i] <= rules[i].max_matches[1]
\* a second call tests a rule that is at its maximum of 1 on a path the rule
\* matches, beside a rule with maximum 0 that has matched nothing
C25_Witness ==
    /\ ncalls = 2 /\ call.op = "test" /\ call.path = n_notes_txt
    /\ rules = <<include(<<p_star_txt>>, <<>>, <<>>, <<>>, <<1>>),
                 exclude(<<p_star>>, <<>>, <<>>, <<>>, <<0>>)>>
    /\ call.rule = 1 /\ call.matches0 = <<1, 0>>
    /\ ret.result = <<>> /\ ret.test = "max matches"
    /\ matches = <<1, 0>>


\* ---------------------------------------------------------------------------
\* C24: sharing one RuleSet that contains a max_matches rule between two
\* walks whose rule evaluations interleave corrupts max_matches accounting:
\* there is an interleaving in which a walk's set of selected paths differs
\* from the set it selects when it runs alone on a fresh RuleSet, and, when
\* the max-matches check and the counter increment of two evaluations
\* interleave, the counter ends above max_matches.
\* what one walk selects when it runs alone on a FileSelect with new counters
RECURSIVE SelectedAlone(_, _, _)
SelectedAloneNext(s, fs, sel) ==
    SelectedAlone(Tail(fs), s.matches,
                  IF s.selected THEN sel \cup {Head(fs)} ELSE sel)
SelectedAlone(fs, ms, sel) ==
    IF fs = <<>> THEN sel
    ELSE SelectedAloneNext(select_file(rules, ms, ApiSrc, Head(fs)), fs, sel)
Alone == SelectedAlone(ConcFiles, [i \in DOMAIN rules |-> 0], {})
WalksOver == call.op = "walks" /\ pc = "idle"
\* the rules more evaluations passed the checks of than max_matches allows:
\* a check passed while an earlier passed evaluation had not yet incremented
OverGranted ==
    {i \in DOMAIN rules :
        rules[i].max_matches # <<>> /\ call.granted[i] > rules[i].max_matches[1]}
\* a walk the other walk did not run beside selects what it selects alone;
\* and when the walks are over, every rule whose check and increment
\* interleaved so that more evaluations passed than max_matches, each
\* increment adding to the counter it found, has its counter at the number of
\* passed evaluations, above max_matches
C24_SharedCounters ==
    call.op = "walks" =>
        /\ \A t \in Walks :
              (call.walk[t].pcw = "done" /\ call.walk[3 - t] = NewWalk(rules))
                  => call.walk[t].selected = Alone
        /\ (WalksOver /\ ~call.torn) =>
              \A i \in OverGranted :
                  /\ matches[i] = call.granted[i]
                  /\ matches[i] > rules[i].max_matches[1]
\* [include('*.txt', max_matches=2)]: one walk selected both files, as alone;
\* its second evaluation and the other walk's first interleaved, the counter
\* ended at 3 and the other walk selected one file only
C24_Witness ==
    /\ WalksOver /\ ~call.torn
    /\ rules = <<include(<<p_star_txt>>, <<>>, <<>>, <<>>, <<2>>)>>
    /\ OverGranted = {1} /\ matches[1] = 3
    /\ ret.selected[1] = Alone
    /\ ret.selected[2] # Alone


\* ---------------------------------------------------------------------------
\* C26: select_file evaluates every non-dir rule on every path with no
\* short-circuit, so a rule's match counter is incremented whenever its own
\* four checks pass, including when a later rule overrides its outcome: a
\* max_matches rule's budget is consumed by paths whose final decision it did
\* not determine, and the returned diagnostics list has exactly one entry per
\* non-dir rule in declared order.
\* the four checks of rule i on the path of the call, with the counter the
\* rule had when the call began
FourChecksPass(i) ==
    /\ _test_max_matches(rules[i], call.matches0[i])
    /\ _test_patterns(rules[i], call.path)
    /\ _test_type(rules[i], fullpath(ApiSrc, call.path))
    /\ _test_size(rules[i], fullpath(ApiSrc, call.path))
C26_NoShortCircuit ==
    ret.op = "select_file" =>
        /\ {ret.rule_results[k].idx : k \in DOMAIN ret.rule_results} = FileRules
        /\ \A j, k \in DOMAIN ret.rule_results :
              j < k => ret.rule_results[j].idx < ret.rule_results[k].idx
        /\ \A k \in DOMAIN ret.rule_results :
              /\ ret.rule_results[k].rule = rules[ret.rule_results[k].idx]
              /\ ret.rule_results[k].result
                    = IF FourChecksPass(ret.rule_results[k].idx)
                      THEN <<rules[ret.rule_results[k].idx].result>> ELSE <<>>
        /\ \A i \in DOMAIN rules :
              matches[i] = IF i \in FileRules /\ FourChecksPass(i)
                           THEN call.matches0[i] + 1 ELSE call.matches0[i]
\* [include('*.txt', max_matches=1), exclude('secret.txt')] on secret.txt:
\* the exclude decides, and the include's one match is spent
C26_Witness ==
    /\ ret.op = "select_file" /\ call.path = n_secret_txt
    /\ rules = <<include(<<p_star_txt>>, <<>>, <<>>, <<>>, <<1>>),
                 exclude(<<n_secret_txt>>, <<>>, <<>>, <<>>, <<>>)>>
    /\ call.matches0 = <<0, 0>> /\ matches = <<1, 1>>
    /\ ~ret.selected
    /\ Len(ret.rule_results) = 2 /\ ret.rule_results[1].result = <<TRUE>>


\* ---------------------------------------------------------------------------
\* C27: for a rule with exactly one size bound set to any value n >= 0
\* (including n = 0) and a readable file size s, the size check passes if and
\* only if the bound holds strictly: s > n for size_gt = n, and s < n for
\* size_lt = n.
C27_OneSizeBound ==
    (SizeCheckRan /\ call.path \in FilePaths /\ TestedSize # <<>>) =>
        /\ (TestedRule.size_gt # <<>> /\ TestedRule.size_lt = <<>>) =>
              (SizeCheckPassed = (TestedSize[1] > TestedRule.size_gt[1]))
        /\ (TestedRule.size_lt # <<>> /\ TestedRule.size_gt = <<>>) =>
              (SizeCheckPassed = (TestedSize[1] < TestedRule.size_lt[1]))


\* ---------------------------------------------------------------------------
\* C28: the byte sequence files_digest feeds to its single running hash is,
\* for each path in the given order, the UTF-8 bytes of the slash-normalized
\* path, one NUL byte, the file's full content, one NUL byte; and this framing
\* identifies the input: two different ordered lists of (normalized path,
\* content) pairs never produce the same fed byte sequence, also when file
\* contents contain NUL bytes.
RECURSIVE FedBytes(_, _)
FedBytes(paths, root_dir) ==
    IF paths = <<>> THEN <<>>
    ELSE DigestFed(Head(paths), root_dir) \o FedBytes(Tail(paths), root_dir)
\* the list of (normalized path, content) pairs a call digests
DigestPairs(paths, root_dir) ==
    [k \in DOMAIN paths |-> <<_path_for_digest(paths[k]), root_dir[paths[k]]>>]
C28_FramingIdentifies ==
    call.op = "files_digest" =>
        /\ ret.digest = hexdigest(FedBytes(call.paths, call.root_dir))
        /\ \A k \in DOMAIN call.prev :
              DigestPairs(call.prev[k].paths, call.prev[k].root_dir)
                 # DigestPairs(call.paths, call.root_dir)
              => call.prev[k].digest # ret.digest


\* ---------------------------------------------------------------------------
\* C29: find_up tests the target at the current directory before it tests
\* the stop condition, so a target that exists in stop_dir itself is found
\* when the upward walk reaches stop_dir, no directory strictly above stop_dir
\* on the walk is ever tested after stop_dir is reached, and when several
\* ancestors contain the target the one nearest to start_dir is returned.
\* the directories check has been called in: the levels left behind, and the
\* level the call returned at
TestedDirs == LevelsPassed \cup (IF FindUpReturned THEN {call.cur} ELSE {})
\* start_dir and its parents
Ancestors == {SubSeq(call.start_dir, 1, k) : k \in 0..Len(call.start_dir)}
CopyfilesRaised == InCopyfiles /\ pc = "idle" /\ ret.raised # "None"
\* the outcome handler.copy had for the k-th path it was called with
CopyOutcomeAt(k) ==
    LET j == CHOOSE j \in EventsOf("copyfile") :
                 Cardinality({i \in EventsOf("copyfile") : i <= j}) = k
    IN  events[j].results[1]
C30_CopyfilesNeverCloses ==
    InCopyfiles =>
        /\ EventsOf("close") = {} /\ EventsOf("ignore") = {}
        /\ Cardinality(EventsOf("init")) = 1
        /\ pc = "idle" => ret.raised \in {"None", "OSError"}
        /\ CopyfilesRaised =>
              /\ Copies # <<>> /\ IsPrefix(Copies, call.files)
              /\ Cardinality(EventsOf("copyfile")) = Len(Copies)
              /\ RaisedErrno(CopyOutcomeAt(Len(Copies))) \notin {<<>>, <<ENOENT>>}
              /\ dest \subseteq Range(Copies)
              /\ \A k \in 1..(Len(Copies) - 1) :
                    /\ RaisedErrno(CopyOutcomeAt(k)) \in {<<>>, <<ENOENT>>}
                          \/ call.handler_cls # "FileCopyHandler"
                    /\ CopyOutcomeAt(k).copyfile = <<>> => Copies[k] \in dest
\* the copy of the first of two different paths raised: the second was never
\* copied, and nothing closed the handler
C30_Witness ==
    /\ CopyfilesRaised /\ ret.raised = "OSError"
    /\ Len(call.files) = 2 /\ call.files[1] # call.files[2]
    /\ Copies = <<call.files[1]>>
    /\ call.files[2] \notin dest
    /\ EventsOf("close") = {}

=============================================================================
